---- MODULE Spec2Model ----
(***************************************************************************)
(* Lead intake and admin access control of kc-backend (src/server.js).     *)
(*                                                                         *)
(* JavaScript strings are sequences of one-character strings, so that the  *)
(* string operations of the code (replace, trim, the email pattern) are    *)
(* computed character by character.  UNDEF stands for undefined / null /   *)
(* an absent JSON field, header, query parameter or environment variable.  *)
(* A timestamp is the number of milliseconds since the start of the run:   *)
(* new Date().toISOString() keeps milliseconds, datetime() drops them.     *)
(***************************************************************************)
EXTENDS Integers, Sequences, FiniteSets, TLC

\* ------------------------------------------------------------------ bounds
MaxReqs  == 3      \* requests received in one run
MaxTicks == 2      \* clock advances in one run
TickMs   == 500    \* milliseconds per clock advance
MaxEscLen == 3     \* length of the strings escapeHtml is tabulated on

\* --------------------------------------------------------------- constants
MsPerSec    == 1000   \* datetime(createdAt) has a resolution of one second
DefaultPort == 587    \* Number(process.env.SMTP_PORT || 587)

\* A JavaScript number is a record: NaN, an infinity, or the finite value
\* (-1)^neg * mant * 10^exp.  An integer below 10^9 has exp 0 (465 is mant
\* 465, 1000 is mant 1000); any other value has a mant without trailing
\* zeros (4.5 is mant 45, exp -1; 1e300 is mant 1, exp 300); 0 is mant 0.
NaN == [nan |-> TRUE, inf |-> FALSE, neg |-> FALSE, mant |-> 0, exp |-> 0]

\* ----------------------------------------------------------------- strings
UNDEF == <<"undefined">>

Truthy(v) == v # UNDEF /\ v # <<>>

\* a || b
Or(a, b) == IF Truthy(a) THEN a ELSE b

\* WhiteSpace and LineTerminator of ECMAScript, which are what \s matches and
\* what trim strips: space, tab, line feed, carriage return, form feed,
\* vertical tab, U+00A0, U+FEFF and U+1680.  The other space separators
\* (U+2000 to U+200A, U+2028, U+2029, U+202F, U+205F, U+3000) cannot be
\* written in a string of this module and are in no input.
WhiteSpace == {" ", "\t", "\n", "\r", "\f", "", " ", "﻿", " "}

\* \s
IsSpace(c) == c \in WhiteSpace

\* String.prototype.startsWith at position i (1-based)
MatchesAt(s, pat, i) ==
    /\ i + Len(pat) - 1 <= Len(s)
    /\ \A k \in 1..Len(pat) : s[i + k - 1] = pat[k]

\* 1-based index of the first occurrence of pat in s, 0 when there is none
IndexOf(s, pat) ==
    LET hits == {i \in 1..Len(s) : MatchesAt(s, pat, i)}
    IN  IF hits = {} THEN 0 ELSE CHOOSE i \in hits : \A j \in hits : i <= j

\* String.prototype.replace(pat, rep) with a string pattern: first occurrence
Replace(s, pat, rep) ==
    LET i == IndexOf(s, pat)
    IN  IF i = 0 THEN s
        ELSE SubSeq(s, 1, i - 1) \o rep \o SubSeq(s, i + Len(pat), Len(s))

\* String.prototype.trim
Trim(s) ==
    LET keep == {i \in 1..Len(s) : ~IsSpace(s[i])}
    IN  IF keep = {} THEN <<>>
        ELSE SubSeq(s, CHOOSE i \in keep : \A j \in keep : i <= j,
                       CHOOSE i \in keep : \A j \in keep : j <= i)

\* the value of c as a digit (of base 16 at most), 16 when c is no digit
DigitOf(c) ==
    CASE c = "0" -> 0 [] c = "1" -> 1 [] c = "2" -> 2 [] c = "3" -> 3
      [] c = "4" -> 4 [] c = "5" -> 5 [] c = "6" -> 6 [] c = "7" -> 7
      [] c = "8" -> 8 [] c = "9" -> 9
      [] c \in {"a", "A"} -> 10 [] c \in {"b", "B"} -> 11
      [] c \in {"c", "C"} -> 12 [] c \in {"d", "D"} -> 13
      [] c \in {"e", "E"} -> 14 [] c \in {"f", "F"} -> 15
      [] OTHER -> 16

\* s is a string (the empty one too) of digits of the base
AllDigits(s, base) == \A i \in 1..Len(s) : DigitOf(s[i]) < base

\* the value of a string of digits of the base
RECURSIVE DigitsValue(_, _)
DigitsValue(s, base) ==
    IF Len(s) = 0 THEN 0
    ELSE DigitsValue(SubSeq(s, 1, Len(s) - 1), base) * base
           + DigitOf(s[Len(s)])

\* s without its leading zeros, s without its trailing zeros
RECURSIVE StripLeft(_)
StripLeft(s) ==
    IF s # <<>> /\ Head(s) = "0" THEN StripLeft(Tail(s)) ELSE s

RECURSIVE StripRight(_)
StripRight(s) ==
    IF s # <<>> /\ s[Len(s)] = "0" THEN StripRight(SubSeq(s, 1, Len(s) - 1))
    ELSE s

RECURSIVE Pow10(_)
Pow10(k) == IF k = 0 THEN 1 ELSE 10 * Pow10(k - 1)

\* the number of decimal digits of m > 0
RECURSIVE NumDigits(_)
NumDigits(m) == IF m < 10 THEN 1 ELSE 1 + NumDigits(m \div 10)

\* m and e such that m * 10^e is unchanged and m has no trailing zero
RECURSIVE Canon(_, _)
Canon(m, e) ==
    IF m = 0 THEN <<0, 0>>
    ELSE IF m % 10 = 0 THEN Canon(m \div 10, e + 1)
    ELSE <<m, e>>

Zero(neg)     == [nan |-> FALSE, inf |-> FALSE, neg |-> neg, mant |-> 0, exp |-> 0]
Infinity(neg) == [nan |-> FALSE, inf |-> TRUE, neg |-> neg, mant |-> 0, exp |-> 0]

\* The first nine digits of the largest decimal that is rounded to a finite
\* double (below 2^1024 - 2^970 = 1.797693134862315807e308) and of the largest
\* that is rounded to zero (2^-1075 = 2.470328229206232720e-324).
MaxLead == 179769313
MinLead == 247032822
MaxExp  == 99999      \* the exponent of a literal is cut off here

\* Below 2^-1022 the doubles are the multiples k * 2^-1074, and a decimal
\* there is rounded to the nearest of them.  k and 2^1074 do not fit the
\* 32-bit integers of TLC: a natural number is held here as the sequence of
\* its digits in base Limb, the lowest first, zero as the empty sequence.
Limb == 1000

\* x without its leading zero digits
BigStrip(x) ==
    LET nz == {i \in 1..Len(x) : x[i] # 0}
    IN  IF nz = {} THEN <<>>
        ELSE SubSeq(x, 1, CHOOSE i \in nz : \A j \in nz : j <= i)

\* the digits d of w[lo] .. w[hi] once the carry cin has gone through them,
\* and the carry c that leaves them
RECURSIVE Carry(_, _, _, _)
Carry(w, lo, hi, cin) ==
    IF lo = hi
    THEN [d |-> <<(w[lo] + cin) % Limb>>, c |-> (w[lo] + cin) \div Limb]
    ELSE LET mid == (lo + hi) \div 2
             l   == Carry(w, lo, mid, cin)
             h   == Carry(w, mid + 1, hi, l.c)
         IN  [d |-> l.d \o h.d, c |-> h.c]

\* the number whose i-th digit position holds the sum w[i]
BigNorm(w) ==
    IF w = <<>> THEN <<>>
    ELSE BigStrip(Carry(w \o <<0, 0, 0, 0>>, 1, Len(w) + 4, 0).d)

BigFromInt(n) == BigNorm(<<n>>)

BigAdd(x, y) ==
    LET n == IF Len(x) > Len(y) THEN Len(x) ELSE Len(y)
    IN  BigNorm([i \in 1..n |-> (IF i <= Len(x) THEN x[i] ELSE 0)
                                + (IF i <= Len(y) THEN y[i] ELSE 0)])

\* the sum of x[i - j + 1] * y[j] over j in lo..hi
RECURSIVE Column(_, _, _, _, _)
Column(x, y, i, lo, hi) ==
    IF lo > hi THEN 0
    ELSE IF lo = hi THEN x[i - lo + 1] * y[lo]
    ELSE LET mid == (lo + hi) \div 2
         IN  Column(x, y, i, lo, mid) + Column(x, y, i, mid + 1, hi)

BigMul(x, y) ==
    IF x = <<>> \/ y = <<>> THEN <<>>
    ELSE BigNorm([i \in 1..(Len(x) + Len(y) - 1) |->
                    Column(x, y, i,
                           IF i > Len(x) THEN i - Len(x) + 1 ELSE 1,
                           IF i < Len(y) THEN i ELSE Len(y))])

\* x >= y
BigGeq(x, y) ==
    IF Len(x) # Len(y) THEN Len(x) > Len(y)
    ELSE LET diff == {i \in 1..Len(x) : x[i] # y[i]}
         IN  \/ diff = {}
             \/ LET top == CHOOSE i \in diff : \A j \in diff : j <= i
                IN  x[top] > y[top]

RECURSIVE BigPow2(_)
BigPow2(n) ==
    IF n = 0 THEN <<1>>
    ELSE IF n % 2 = 1 THEN BigMul(BigPow2(n - 1), <<2>>)
    ELSE LET h == BigPow2(n \div 2) IN BigMul(h, h)

\* the integer part of x / 10^n
BigDivPow10(x, n) ==
    LET y    == IF n % 3 = 0 THEN x ELSE BigMul(x, <<Pow10(3 - (n % 3))>>)
        drop == (n + 2) \div 3
    IN  IF drop >= Len(y) THEN <<>> ELSE SubSeq(y, drop + 1, Len(y))

\* 10^n / 2, for n > 0
BigHalfPow10(n) ==
    [i \in 1..((n - 1) \div 3 + 1) |->
        IF i = (n - 1) \div 3 + 1 THEN 5 * Pow10((n - 1) % 3) ELSE 0]

\* the double next to zero is 2^-1074 (Number.MIN_VALUE)
TwoTo1074 == BigPow2(1074)

\* the k whose double k * 2^-1074 is the nearest to s * 10^-n, for s below
\* 2^31: s * 2^1074 / 10^n is never half an integer, 10^n having more
\* factors 5 than s
Denormal(s, n) ==
    BigDivPow10(BigAdd(BigMul(TwoTo1074, BigFromInt(s)), BigHalfPow10(n)), n)

\* s * 10^-324 is at least as near to k * 2^-1074 as (s + 1) * 10^-324 is:
\* the value in the middle of the two is not below it
NearerThanNext(s, k) ==
    BigGeq(BigDivPow10(BigMul(TwoTo1074, BigFromInt(2 * s + 1)), 324),
           BigAdd(k, k))

\* What the double nearest to m * 10^e prints as, for e <= -324 and a value
\* that is not rounded to zero (Number::toString): the decimal <<s, t>> of
\* the fewest digits that is rounded to the same double and, of those, the
\* nearest to it.  From 10^-323 upwards the decimals s * 10^t lie further
\* apart than the doubles, so that only the two next to m * 10^e can be
\* rounded to its double; the multiples of 10^-324 lie closer, and the one
\* nearest to the double is rounded to it.
ShortestDenormal(m, e) ==
    LET k     == Denormal(m, 0 - e)
        mag   == NumDigits(m) - 1 + e
        hits  == {h \in UNION {{<<m \div Pow10(t - e), t>>,
                                <<m \div Pow10(t - e) + 1, t>>} :
                               t \in (0 - 323)..(mag + 1)} :
                     h[1] > 0 /\ Denormal(h[1], 0 - h[2]) = k}
        s0    == m \div Pow10(0 - 324 - e)
        near  == {s \in (s0 - 4)..(s0 + 4) : s > 0 /\ NearerThanNext(s, k)}
    IN  IF hits # {}
        THEN CHOOSE h \in hits : \A g \in hits : g[2] <= h[2]
        ELSE <<CHOOSE s \in near : \A r \in near : s <= r, 0 - 324>>

\* The number (-1)^neg * m * 10^e as the code holds it, written as the
\* decimal its double prints as: an infinity above the range of a double,
\* zero below it; the decimal itself when its last digit stands at 10^-323
\* or above, since a decimal of nine digits there is the shortest that is
\* rounded to its double; else what the nearest multiple of 2^-1074 prints
\* as.  m has nine digits at most once its trailing zeros are dropped: the
\* literals of the inputs are short.
Finite(neg, m, e) ==
    LET c    == Canon(m, e)
        d    == NumDigits(c[1])
        mag  == d - 1 + c[2]
        lead == c[1] * Pow10(9 - d)
        p0   == ShortestDenormal(c[1], c[2])
        p    == Canon(p0[1], p0[2])
    IN  IF c[1] = 0 THEN Zero(neg)
        ELSE IF mag > 308 \/ (mag = 308 /\ lead > MaxLead) THEN Infinity(neg)
        ELSE IF mag < -324 \/ (mag = -324 /\ lead <= MinLead) THEN Zero(neg)
        ELSE IF c[2] <= -324
             THEN [nan |-> FALSE, inf |-> FALSE, neg |-> neg,
                   mant |-> p[1], exp |-> p[2]]
        ELSE IF c[2] > 0 /\ mag <= 8
             THEN [nan |-> FALSE, inf |-> FALSE, neg |-> neg,
                   mant |-> c[1] * Pow10(c[2]), exp |-> 0]
        ELSE [nan |-> FALSE, inf |-> FALSE, neg |-> neg,
              mant |-> c[1], exp |-> c[2]]

\* a number that is an integer n >= 0 (the 587 of the code)
FromInt(n) == Finite(FALSE, n, 0)

\* !n of a number: NaN, 0 and -0 are falsy
NumTruthy(n) == ~n.nan /\ (n.inf \/ n.mant # 0)

\* 1-based index of the first character of s that is in cs, 0 if none
FirstOf(s, cs) ==
    LET hits == {i \in 1..Len(s) : s[i] \in cs}
    IN  IF hits = {} THEN 0 ELSE CHOOSE i \in hits : \A j \in hits : i <= j

\* StrUnsignedDecimalLiteral without Infinity:
\* digits [. digits] [(e | E) [+ | -] digits], with a digit before the exponent
DecimalLiteral(neg, r) ==
    LET ie   == FirstOf(r, {"e", "E"})
        mp   == IF ie = 0 THEN r ELSE SubSeq(r, 1, ie - 1)
        ep   == IF ie = 0 THEN <<>> ELSE SubSeq(r, ie + 1, Len(r))
        eneg == ep # <<>> /\ Head(ep) = "-"
        ed   == IF ep # <<>> /\ Head(ep) \in {"+", "-"} THEN Tail(ep) ELSE ep
        id   == FirstOf(mp, {"."})
        ip   == IF id = 0 THEN mp ELSE SubSeq(mp, 1, id - 1)
        fp   == IF id = 0 THEN <<>> ELSE SubSeq(mp, id + 1, Len(mp))
        sig  == StripLeft(ed)
        eabs == IF Len(sig) > 5 THEN MaxExp ELSE DigitsValue(sig, 10)
        e    == IF eneg THEN 0 - eabs ELSE eabs
        ds   == StripRight(StripLeft(ip \o fp))
        cut  == Len(StripLeft(ip \o fp)) - Len(ds)
    IN  IF \/ ~AllDigits(ip, 10) \/ ~AllDigits(fp, 10) \/ ~AllDigits(ed, 10)
           \/ Len(ip) + Len(fp) = 0
           \/ (ie # 0 /\ ed = <<>>)
        THEN NaN
        ELSE Finite(neg, DigitsValue(ds, 10), e - Len(fp) + cut)

\* 0x, 0o and 0b literals (either case of the letter), which take no sign
NonDecimalBase(s) ==
    IF Len(s) < 3 \/ s[1] # "0" THEN 0
    ELSE IF s[2] \in {"x", "X"} THEN 16
    ELSE IF s[2] \in {"o", "O"} THEN 8
    ELSE IF s[2] \in {"b", "B"} THEN 2
    ELSE 0

\* Number(v) of a string (StringToNumber): white space around the literal is
\* dropped, the empty string is 0, what is no numeric literal is NaN
Number(v) ==
    LET s    == Trim(v)
        base == NonDecimalBase(s)
        neg  == s # <<>> /\ Head(s) = "-"
        r    == IF s # <<>> /\ Head(s) \in {"+", "-"} THEN Tail(s) ELSE s
    IN  IF s = <<>> THEN Zero(FALSE)
        ELSE IF base # 0
             THEN IF AllDigits(SubSeq(s, 3, Len(s)), base)
                  THEN Finite(FALSE, DigitsValue(SubSeq(s, 3, Len(s)), base), 0)
                  ELSE NaN
        ELSE IF r = <<"I", "n", "f", "i", "n", "i", "t", "y">>
             THEN Infinity(neg)
        ELSE DecimalLiteral(neg, r)

\* ------------------------------------------------------------ string values
Bearer  == <<"B", "e", "a", "r", "e", "r", " ">>
Secret  == <<"k", "9">>
Wrong   == <<"k", "8">>
OwnerAt == <<"o", "@", "k", ".", "n", "l">>
Ann     == <<"A", "n", "n">>
AnnAt   == <<"a", "@", "b", ".", "c", "o">>
BadAt   == <<"a", "@", "b">>
NotAnEmail == <<"n", "o", "t">>
ShortTld   == <<"a", "@", "b", ".", "c">>
PadAt      == <<" ", "a", "@", "b", ".", "c", "o">>
CrAt       == <<"a", "\r", "@", "b", ".", "c", "o">>
TagAt      == <<"<", "&", "@", "b", ".", "c", "o">>
PageTag    == <<"/", "?", "\"", ">", "&">>
Dash       == <<"-">>
Wash    == <<"w", "a", "s", "h">>
Quote   == <<"h", "i">>
Tel     == <<"0", "6">>
Web     == <<"w", "e", "b">>
SrcUnknown == <<"u", "n", "k", "n", "o", "w", "n">>
SrcEmail   == <<"e", "m", "a", "i", "l">>
Host    == <<"s", ".", "n", "l">>
User    == <<"u">>
Pass    == <<"p", " ", "w">>
Port465 == <<"4", "6", "5">>
Port0   == <<"0">>
PortPadded == <<" ", "4", "6", "5">>
Star    == <<"*">>
Comma   == <<",">>
SiteNl  == <<"k", ".", "n", "l">>
SiteBe  == <<"x", ".", "b", "e">>
SiteDe  == <<"x", ".", "d", "e">>
FromAt  == <<"f", "@", "k", ".", "n", "l">>
ReplyAt == <<"r", "@", "k", ".", "n", "l">>
Script  == <<"<", "s", ">">>
AmpName == <<"A", "&", "l", "t", ";">>
Quotes  == <<"\"", "x", "'">>
TwoLines == <<"a", "\n", "<">>
OriginRules == <<"k", ".", "n", "l", ",", " ", "*", ".", "b", "e", ",">>
OriginRulesCr == <<"k", ".", "n", "l", "\r", ",", "x", ".", "b", "e">>

\* ------------------------------------------------------------------ inputs
FullEnv ==
    [ADMIN_TOKEN |-> Secret, ADMIN_API_KEY |-> UNDEF, MAIL_TO |-> OwnerAt,
     SMTP_HOST |-> Host, SMTP_PORT |-> UNDEF, SMTP_USER |-> User,
     SMTP_PASS |-> Pass, CORS_ORIGINS |-> UNDEF, MAIL_FROM |-> UNDEF,
     REPLY_TO |-> UNDEF]

MailEnvs ==
    { FullEnv,
      [FullEnv EXCEPT !.SMTP_PORT = Port465],
      [FullEnv EXCEPT !.MAIL_TO = UNDEF],
      [FullEnv EXCEPT !.SMTP_HOST = UNDEF],
      [FullEnv EXCEPT !.SMTP_PASS = <<>>],
      [FullEnv EXCEPT !.SMTP_PORT = Port0] }

AdminEnvs ==
    { FullEnv,
      [FullEnv EXCEPT !.ADMIN_TOKEN = UNDEF, !.ADMIN_API_KEY = Secret],
      [FullEnv EXCEPT !.ADMIN_TOKEN = <<>>, !.ADMIN_API_KEY = <<>>] }

ValidBody ==
    [name |-> Ann, email |-> AnnAt, phone |-> UNDEF, service |-> Wash,
     message |-> Quote, source |-> UNDEF, pageUrl |-> UNDEF]

ValidBodies ==
    { ValidBody,
      [ValidBody EXCEPT !.phone = Tel, !.source = Web],
      [ValidBody EXCEPT !.phone = <<>>, !.source = <<>>] }

MissingBodies ==
    { [ValidBody EXCEPT !.name = UNDEF], [ValidBody EXCEPT !.name = <<>>],
      [ValidBody EXCEPT !.email = UNDEF], [ValidBody EXCEPT !.service = <<>>],
      [ValidBody EXCEPT !.message = UNDEF], [ValidBody EXCEPT !.message = <<>>] }

InvalidEmailBodies == { [ValidBody EXCEPT !.email = BadAt] }

Bodies == {ValidBody} \cup MissingBodies \cup InvalidEmailBodies

\* req.body.email, and bodies that differ in email or source only
EmailInputs == {AnnAt, PadAt, NotAnEmail, ShortTld, CrAt}

EmailBodies ==
    {[ValidBody EXCEPT !.email = e] : e \in EmailInputs}
      \cup {[ValidBody EXCEPT !.source = Web]}

\* CORS_ORIGINS unset, set to the list "k.nl, *.be," and set to a list
\* whose first entry ends in a carriage return
CorsEnvs ==
    { FullEnv, [FullEnv EXCEPT !.CORS_ORIGINS = OriginRules],
      [FullEnv EXCEPT !.CORS_ORIGINS = OriginRulesCr] }

\* the Origin header of a request (UNDEF: none)
Origins == {SiteNl, SiteBe, SiteDe}

\* the characters escapeHtml replaces, and two it keeps
EscChars == {"&", "<", ">", "\"", "'", "a", ";"}

\* every string of at most MaxEscLen of these characters
EscStrings == UNION {[1..n -> EscChars] : n \in 0..MaxEscLen}

\* bodies whose texts hold the characters escapeHtml replaces
HtmlBodies ==
    { [ValidBody EXCEPT !.name = AmpName, !.service = Quotes, !.phone = Script],
      [ValidBody EXCEPT !.message = TwoLines, !.phone = <<>>],
      [ValidBody EXCEPT !.email = TagAt],
      [ValidBody EXCEPT !.email = TagAt, !.message = Script,
                        !.pageUrl = PageTag],
      [ValidBody EXCEPT !.pageUrl = <<>>, !.phone = Script] }
      \cup {[ValidBody EXCEPT !.message = s] : s \in EscStrings \cup {Script}}

\* <<Authorization header, token query parameter>> of an admin request
AuthInputs ==
    { <<UNDEF, UNDEF>>,
      <<Bearer \o Secret, UNDEF>>, <<Bearer \o Wrong, UNDEF>>,
      <<UNDEF, Secret>>, <<UNDEF, <<>>>>,
      <<Bearer \o Secret, Wrong>>, <<Bearer \o Wrong, Secret>>,
      <<Bearer, Secret>>, <<<<>>, Secret>> }

GoodAuth == { <<Bearer \o Secret, UNDEF>> }

\* Authorization headers with and without the scheme, and with "Bearer "
\* inside or after the secret or after other text
BearerHeaders ==
    { Bearer \o Secret, Bearer \o Wrong, Secret,
      <<"k">> \o Bearer \o <<"9">>, Secret \o Bearer,
      <<"x">> \o Bearer \o Secret }

DeleteAuthInputs ==
    { <<UNDEF, UNDEF>>, <<Bearer \o Secret, UNDEF>> }

\* :id of DELETE /api/admin/leads/:id, a decimal number
IdParams == 1..2

\* ------------------------------------------------------------------- state
VARIABLES
    env,      \* process.env, read once at startup or per request
    db,       \* the sqlite3 handle: "opening" from the load of the module
              \* (the server listens already), "open" once the open callback
              \* ran without error, "exit" after process.exit(1)
    clock,    \* wall clock in milliseconds
    leads,    \* the rows of table leads
    seq,      \* sqlite_sequence of table leads: the largest id ever assigned
    nreq,     \* number of requests received so far
    req       \* the requests: input, position in the handler, response;
              \* before is a history field, the ids stored when the store
              \* ran the statement of the request

vars == <<env, db, clock, leads, seq, nreq, req>>

NoBody ==
    [name |-> UNDEF, email |-> UNDEF, phone |-> UNDEF, service |-> UNDEF,
     message |-> UNDEF, source |-> UNDEF, pageUrl |-> UNDEF]

NoHtml == [name |-> <<>>, service |-> <<>>, phone |-> <<>>, message |-> <<>>]

Idle ==
    [kind |-> "none", body |-> NoBody, hdr |-> UNDEF, qtok |-> UNDEF,
     idp |-> 0, pc |-> "idle", createdAt |-> 0, source |-> UNDEF, id |-> 0,
     status |-> 0, error |-> "", rows |-> <<>>, deleted |-> 0,
     mails |-> <<>>, before |-> {}, origin |-> UNDEF, ctype |-> "",
     html |-> NoHtml]

\* const ADMIN_TOKEN = process.env.ADMIN_TOKEN || process.env.ADMIN_API_KEY || ""
ADMIN_TOKEN == Or(Or(env.ADMIN_TOKEN, env.ADMIN_API_KEY), <<>>)

\* the state once the module is loaded: the open of the store is under way
\* and the server listens
Startup(envs) ==
    /\ env \in envs
    /\ db = "opening"
    /\ clock = 0
    /\ leads = {}
    /\ seq = 0
    /\ nreq = 0
    /\ req = [r \in 1..MaxReqs |-> Idle]

\* the state at one of the times in clocks, the store opened, before the
\* first request
InitAt(envs, clocks) ==
    /\ env \in envs
    /\ db = "open"
    /\ clock \in clocks
    /\ leads = {}
    /\ seq = 0
    /\ nreq = 0
    /\ req = [r \in 1..MaxReqs |-> Idle]

\* the state once the store has opened, before the first request
InitWith(envs) == InitAt(envs, {0})

\* ----------------------------------------------------------------- helpers
\* String.prototype.split(sep) with a one-character separator
RECURSIVE Split(_, _)
Split(s, sep) ==
    LET i == IndexOf(s, sep)
    IN  IF i = 0 THEN <<s>>
        ELSE <<SubSeq(s, 1, i - 1)>> \o Split(SubSeq(s, i + 1, Len(s)), sep)

\* const CORS_ORIGINS = (process.env.CORS_ORIGINS || "*").split(",")
\*   .map((s) => s.trim()).filter(Boolean), as a set of rules
CORS_ORIGINS ==
    LET parts == Split(Or(env.CORS_ORIGINS, Star), Comma)
    IN  {Trim(parts[k]) : k \in 1..Len(parts)} \ {<<>>}

\* the line terminators, which the . of a regular expression does not match
\* (U+2028 and U+2029 are two more, which a string of this module cannot
\* hold)
LineTerminators == {"\n", "\r"}

\* new RegExp("^" + o.replace(/\./g, "\\.").replace(/\*/g, ".*") + "$").test(s)
\* for a rule o of letters, dots and stars: a star stands for any run of
\* characters other than line terminators
RECURSIVE RuleMatches(_, _)
RuleMatches(o, s) ==
    IF o = <<>> THEN s = <<>>
    ELSE IF Head(o) = "*"
         THEN \E k \in 0..Len(s) :
                 /\ \A i \in 1..k : s[i] \notin LineTerminators
                 /\ RuleMatches(Tail(o), SubSeq(s, k + 1, Len(s)))
         ELSE s # <<>> /\ Head(s) = Head(o) /\ RuleMatches(Tail(o), Tail(s))

\* corsOptions.origin calls back with true (TRUE) or with an Error (FALSE)
corsAllowed(origin) ==
    \/ ~Truthy(origin)
    \/ Star \in CORS_ORIGINS
    \/ origin \in CORS_ORIGINS
    \/ \E o \in CORS_ORIGINS : IndexOf(o, Star) # 0 /\ RuleMatches(o, origin)

\* String.prototype.replaceAll(c, rep) for a pattern c of one character
RECURSIVE ReplaceAll(_, _, _)
ReplaceAll(s, c, rep) ==
    IF s = <<>> THEN <<>>
    ELSE (IF Head(s) = c THEN rep ELSE <<Head(s)>>) \o ReplaceAll(Tail(s), c, rep)

AmpEnt  == <<"&", "a", "m", "p", ";">>
LtEnt   == <<"&", "l", "t", ";">>
GtEnt   == <<"&", "g", "t", ";">>
QuotEnt == <<"&", "q", "u", "o", "t", ";">>
AposEnt == <<"&", "#", "0", "3", "9", ";">>
Br      == <<"<", "b", "r", "/", ">">>

\* an escapeHtml that replaces the ampersand last
escapeHtml_AmpLast(s) ==
    ReplaceAll(ReplaceAll(ReplaceAll(ReplaceAll(ReplaceAll(Or(s, <<>>),
        "<", LtEnt), ">", GtEnt), "\"", QuotEnt), "'", AposEnt), "&", AmpEnt)

\* String(s || "").replaceAll("&", "&amp;").replaceAll("<", "&lt;")
\*   .replaceAll(">", "&gt;").replaceAll('"', "&quot;").replaceAll("'", "&#039;")
escapeHtml(s) ==
    ReplaceAll(ReplaceAll(ReplaceAll(ReplaceAll(ReplaceAll(Or(s, <<>>),
        "&", AmpEnt), "<", LtEnt), ">", GtEnt), "\"", QuotEnt), "'", AposEnt)

\* the texts of the body that the template of sendCustomerConfirmation
\* embeds into html, as they are embedded (<<>>: the part is left out)
ConfirmationHtml(b) ==
    [name    |-> IF Truthy(b.name) THEN escapeHtml(b.name) ELSE <<>>,
     service |-> escapeHtml(b.service),
     phone   |-> IF Truthy(b.phone) THEN escapeHtml(b.phone) ELSE <<>>,
     message |-> IF Truthy(b.message)
                 THEN ReplaceAll(escapeHtml(b.message), "\n", Br) ELSE <<>>]

\* a pattern whose last part may be a single character
isValidEmail_AnyTld(email) ==
    LET s == Trim(Or(email, <<>>))
        n == Len(s)
    IN  \E i \in 2..n : \E j \in (i + 2)..(n - 1) :
            /\ s[i] = "@"
            /\ s[j] = "."
            /\ \A k \in (1..n) \ {i} : s[k] # "@" /\ ~IsSpace(s[k])

\* /^[^\s@]+@[^\s@]+\.[^\s@]{2,}$/.test(String(email || "").trim())
isValidEmail(email) ==
    LET s == Trim(Or(email, <<>>))
        n == Len(s)
    IN  \E i \in 2..n : \E j \in (i + 2)..(n - 2) :
            /\ s[i] = "@"
            /\ s[j] = "."
            /\ \A k \in (1..n) \ {i} : s[k] # "@" /\ ~IsSpace(s[k])

\* a getMailer that does not look at the password
getMailer_NoPass ==
    LET port == IF Truthy(env.SMTP_PORT) THEN Number(env.SMTP_PORT)
                ELSE FromInt(DefaultPort)
    IN  Truthy(env.SMTP_HOST) /\ NumTruthy(port) /\ Truthy(env.SMTP_USER)

\* the transporter exists (TRUE) or getMailer returns null (FALSE)
getMailer ==
    LET host == env.SMTP_HOST
        port == IF Truthy(env.SMTP_PORT) THEN Number(env.SMTP_PORT)
                ELSE FromInt(DefaultPort)
        user == env.SMTP_USER
        pass == env.SMTP_PASS
    IN  Truthy(host) /\ NumTruthy(port) /\ Truthy(user) /\ Truthy(pass)

\* an INSERT without the defaults of phone and source
LeadRow_NoDefaults(id, createdAt, body, source) ==
    [id |-> id, createdAt |-> createdAt, name |-> body.name,
     email |-> body.email, phone |-> body.phone, service |-> body.service,
     message |-> body.message, source |-> source]

\* the row insertLead writes for a payload, at the time it is called
LeadRow(id, createdAt, body, source) ==
    [id |-> id, createdAt |-> createdAt, name |-> body.name,
     email |-> body.email, phone |-> Or(body.phone, <<>>),
     service |-> body.service, message |-> body.message,
     source |-> Or(source, SrcUnknown)]

StoredIds == {l.id : l \in leads}

\* datetime(createdAt)
datetime(createdAt) == createdAt \div MsPerSec

\* SELECT * FROM leads ORDER BY datetime(createdAt) DESC: the order of rows
\* with equal keys is not defined by SQL
SelectAll ==
    LET n == Cardinality(leads)
    IN  { s \in [1..n -> leads] :
            /\ \A i, j \in 1..n : i # j => s[i] # s[j]
            /\ \A i, j \in 1..n :
                 i < j => datetime(s[i].createdAt) >= datetime(s[j].createdAt) }

\* a guard that prefers the query parameter
Token_QueryFirst(hdr, qtok) ==
    LET bearer == IF hdr = UNDEF THEN UNDEF ELSE Replace(hdr, Bearer, <<>>)
    IN  Or(qtok, bearer)

\* const token = bearer || req.query.token
Token(hdr, qtok) ==
    LET bearer == IF hdr = UNDEF THEN UNDEF ELSE Replace(hdr, Bearer, <<>>)
    IN  Or(bearer, qtok)

\* a guard that compares a token only when one is provided
requireAdmin_AllowNoToken(hdr, qtok) ==
    IF ~Truthy(ADMIN_TOKEN) THEN 500
    ELSE IF Truthy(Token(hdr, qtok)) /\ Token(hdr, qtok) # ADMIN_TOKEN THEN 401
    ELSE 0

\* a guard without the check of the configuration
requireAdmin_NoConfigCheck(hdr, qtok) ==
    IF Token(hdr, qtok) # ADMIN_TOKEN THEN 401 ELSE 0

\* the status requireAdmin answers with, 0 when it calls next()
requireAdmin(hdr, qtok) ==
    IF ~Truthy(ADMIN_TOKEN) THEN 500
    ELSE IF Token(hdr, qtok) # ADMIN_TOKEN THEN 401
    ELSE 0

AuthError(st) == IF st = 500 THEN "ADMIN_TOKEN missing" ELSE "Unauthorized"

\* a validation that forgets the message
MissingFields_NoMessage(b) ==
    ~Truthy(b.name) \/ ~Truthy(b.email) \/ ~Truthy(b.service)

\* !name || !email || !service || !message
MissingFields(b) ==
    ~Truthy(b.name) \/ ~Truthy(b.email) \/ ~Truthy(b.service) \/ ~Truthy(b.message)

\* res.status(st).json({ ok: false, error: err }), or res.json(...) for 200
Respond(q, st, err) ==
    [q EXCEPT !.pc = "done", !.status = st, !.error = err, !.ctype = "json"]

\* no error-handling middleware is installed: an error passed to next() ends
\* in the default error handler of the framework, which answers with the
\* status of the error (500 when it has none) and an HTML page
DefaultErrorHandler(q, st) ==
    [q EXCEPT !.pc = "done", !.status = st, !.error = "", !.ctype = "html"]

\* ------------------------------------------------------------------ actions
\* a server that takes no request while a mail send is in flight
Arrives_WhenMailIdle(r) ==
    /\ \A o \in 1..MaxReqs : req[o].pc \notin {"owner", "confirm"}
    /\ db # "exit" /\ r = nreq + 1 /\ r <= MaxReqs /\ nreq' = r

\* a request arrives in the next free slot
Arrives(r) == db # "exit" /\ r = nreq + 1 /\ r <= MaxReqs /\ nreq' = r

Tick ==
    /\ clock + TickMs <= MaxTicks * TickMs
    /\ clock' = clock + TickMs
    /\ UNCHANGED <<env, db, leads, seq, nreq, req>>

\* the callback of new sqlite3.Database: process.exit(1) on an error
OpenDone(ok) ==
    /\ db = "opening"
    /\ db' = IF ok THEN "open" ELSE "exit"
    /\ UNCHANGED <<env, clock, leads, seq, nreq, req>>

\* a request that does not get past the middleware: express.json fails on
\* a malformed JSON body with a 400 error, or else cors fails on an Origin
\* that corsOptions.origin refuses
Middleware(r, kind, origin, malformed) ==
    /\ Arrives(r)
    /\ malformed \/ ~corsAllowed(origin)
    /\ req' = [req EXCEPT ![r] =
          DefaultErrorHandler([@ EXCEPT !.kind = kind, !.origin = origin],
                              IF malformed THEN 400 ELSE 500)]
    /\ UNCHANGED <<env, db, clock, leads, seq>>

\* the synchronous part of both intake handlers: validation, then the call
\* of insertLead, which fixes createdAt and hands the statement to the store
Intake(r, kind, body, source) ==
    /\ Arrives(r)
    /\ LET q == [req[r] EXCEPT !.kind = kind, !.body = body]
       IN  req' = [req EXCEPT ![r] =
             IF MissingFields(body) THEN Respond(q, 400, "Missing fields")
             ELSE IF ~isValidEmail(body.email) THEN Respond(q, 400, "Invalid email")
             ELSE [q EXCEPT !.pc = "insert", !.createdAt = clock,
                            !.source = source]]
    /\ UNCHANGED <<env, db, clock, leads, seq>>

\* app.post("/api/leads", ...)
PostLeads(r, body) == Intake(r, "leads", body, body.source)

\* a handler that lets the body choose the source
handleEmailLead_ClientSource(r, body) ==
    Intake(r, "email", body, Or(body.source, SrcEmail))

\* app.post("/api/leads/email", handleEmailLead), app.post("/api/email", ...)
handleEmailLead(r, body) == Intake(r, "email", body, SrcEmail)

\* what handleEmailLead does once insertLead has resolved with q.id: the
\* configuration checks, then the call of sendOwnerEmail
AfterInsertEmail(q) ==
    IF ~Truthy(env.MAIL_TO) THEN Respond(q, 500, "MAIL_TO missing")
    ELSE IF ~getMailer THEN Respond(q, 500, "SMTP config missing")
    ELSE [q EXCEPT !.pc = "owner",
                   !.mails = Append(@, [kind |-> "owner", to |-> env.MAIL_TO,
                                        replyTo |-> q.body.email, id |-> q.id,
                                        result |-> "pending"])]

\* a handler that goes on to the notification when insertLead rejects
OnInsertRejected_GoOn(q) ==
    IF q.kind = "leads" THEN Respond(q, 500, "Insert failed")
    ELSE AfterInsertEmail(q)

\* the catch block of the handler when insertLead rejects
OnInsertRejected(q) ==
    IF q.kind = "leads" THEN Respond(q, 500, "Insert failed")
    ELSE Respond(q, 500, "Email send failed")

\* INTEGER PRIMARY KEY without AUTOINCREMENT: one more than the largest id
\* stored now
NextId_MaxRowid ==
    IF leads = {} THEN 1
    ELSE 1 + CHOOSE m \in StoredIds : \A i \in StoredIds : i <= m

\* id INTEGER PRIMARY KEY AUTOINCREMENT: one more than the largest id the
\* table ever assigned
NextId == seq + 1

\* the store runs the INSERT of insertLead and calls back (this.lastID)
insertLead(r, ok) ==
    /\ req[r].pc = "insert"
    /\ db = "open"
    /\ IF ok
       THEN /\ seq' = NextId
            /\ leads' = leads \cup {LeadRow(NextId, req[r].createdAt,
                                              req[r].body, req[r].source)}
            /\ LET q == [req[r] EXCEPT !.id = NextId, !.before = StoredIds]
               IN  req' = [req EXCEPT ![r] =
                     IF q.kind = "leads" THEN Respond(q, 200, "")
                     ELSE AfterInsertEmail(q)]
       ELSE /\ UNCHANGED <<seq, leads>>
            /\ req' = [req EXCEPT ![r] = OnInsertRejected(@)]
    /\ UNCHANGED <<env, db, clock, nreq>>

\* the promise of transporter.sendMail settles: the last message started is
\* sent or has failed
Settle(mails, ok) ==
    [mails EXCEPT ![Len(mails)].result = IF ok THEN "sent" ELSE "failed"]

\* a handler that goes on to the confirmation whatever the owner send did
sendOwnerEmail_Unchecked(r, ok) ==
    /\ req[r].pc = "owner"
    /\ db # "exit"
    /\ req' = [req EXCEPT ![r] =
          [@ EXCEPT !.pc = "confirm",
                    !.html = ConfirmationHtml(req[r].body),
                    !.mails = Append(Settle(@, ok),
                                     [kind |-> "confirm",
                                      to |-> req[r].body.email,
                                      replyTo |-> UNDEF, id |-> req[r].id,
                                      result |-> "pending"])]]
    /\ UNCHANGED <<env, db, clock, leads, seq, nreq>>

\* transporter.sendMail of sendOwnerEmail settles; on success the handler
\* calls sendCustomerConfirmation
sendOwnerEmail(r, ok) ==
    /\ req[r].pc = "owner"
    /\ db # "exit"
    /\ req' = [req EXCEPT ![r] =
          IF ok
          THEN [@ EXCEPT !.pc = "confirm",
                         !.html = ConfirmationHtml(req[r].body),
                         !.mails = Append(Settle(@, ok),
                                          [kind |-> "confirm",
                                           to |-> req[r].body.email,
                                           replyTo |-> UNDEF,
                                           id |-> req[r].id,
                                           result |-> "pending"])]
          ELSE Respond([@ EXCEPT !.mails = Settle(@, ok)],
                       500, "Email send failed")]
    /\ UNCHANGED <<env, db, clock, leads, seq, nreq>>

\* a handler that sends the confirmation again when it failed
sendCustomerConfirmation_Retry(r, ok) ==
    /\ req[r].pc = "confirm"
    /\ db # "exit"
    /\ req' = [req EXCEPT ![r] =
          IF ok THEN Respond([@ EXCEPT !.mails = Settle(@, ok)], 200, "")
          ELSE [@ EXCEPT !.mails = Append(Settle(@, ok),
                                          [@[Len(@)] EXCEPT !.result = "pending"])]]
    /\ UNCHANGED <<env, db, clock, leads, seq, nreq>>

\* transporter.sendMail of sendCustomerConfirmation settles
sendCustomerConfirmation(r, ok) ==
    /\ req[r].pc = "confirm"
    /\ db # "exit"
    /\ req' = [req EXCEPT ![r] =
          IF ok THEN Respond([@ EXCEPT !.mails = Settle(@, ok)], 200, "")
          ELSE Respond([@ EXCEPT !.mails = Settle(@, ok)],
                       500, "Email send failed")]
    /\ UNCHANGED <<env, db, clock, leads, seq, nreq>>

\* ------------------------------------------------- the earlier versions
\* The handlers of the three other versions of the server, as steps on a
\* request record: what the version answers or starts where server.js runs
\* the step of the same name.

\* the call of insertLead that ends the first step of a handler: the INSERT
\* is handed to the store with the time of the call and with the source of
\* the body (POST /api/leads) or "email" (the mail routes)
CallInsertLead(q) ==
    [q EXCEPT !.pc = "insert", !.createdAt = clock,
              !.source = IF q.kind = "email" THEN SrcEmail ELSE q.body.source]

\* part_000, POST /api/leads and handleEmail: the required fields only
P0_Validate(q) ==
    IF MissingFields(q.body) THEN Respond(q, 400, "Missing fields")
    ELSE CallInsertLead(q)

\* part_001, POST /api/leads and handleEmailLead
P1_Validate(q) ==
    IF MissingFields(q.body) THEN Respond(q, 400, "Missing fields")
    ELSE IF ~isValidEmail(q.body.email) THEN Respond(q, 400, "Invalid email")
    ELSE CallInsertLead(q)

\* part_002, POST /api/leads and handleEmailLead
P2_Validate(q) ==
    IF MissingFields(q.body) THEN Respond(q, 400, "Missing fields")
    ELSE IF ~isValidEmail(q.body.email) THEN Respond(q, 400, "Invalid email")
    ELSE CallInsertLead(q)

\* the owner message a version starts for q
OwnerMail(q) ==
    [kind |-> "owner", to |-> env.MAIL_TO, replyTo |-> q.body.email,
     id |-> q.id, result |-> "pending"]

\* the confirmation part_001 and part_002 start for q:
\* replyTo: process.env.REPLY_TO || from, with
\* from = process.env.MAIL_FROM || process.env.SMTP_USER
LaterConfirmMail(q) ==
    [kind |-> "confirm", to |-> q.body.email,
     replyTo |-> Or(env.REPLY_TO, Or(env.MAIL_FROM, env.SMTP_USER)),
     id |-> q.id, result |-> "pending"]

\* part_001, the texts that confirmHtml embeds, as they are embedded: the
\* name and the message without a test, the phone when there is one
P1_ConfirmHtml(b) ==
    [name    |-> escapeHtml(b.name),
     service |-> escapeHtml(b.service),
     phone   |-> IF Truthy(b.phone) THEN escapeHtml(b.phone) ELSE <<>>,
     message |-> ReplaceAll(escapeHtml(b.message), "\n", Br)]

\* part_002, the texts that confirmHtml embeds: those of part_001 and the
\* email
P2_ConfirmHtml(b) ==
    [name    |-> escapeHtml(b.name),
     service |-> escapeHtml(b.service),
     phone   |-> IF Truthy(b.phone) THEN escapeHtml(b.phone) ELSE <<>>,
     email   |-> escapeHtml(b.email),
     message |-> ReplaceAll(escapeHtml(b.message), "\n", Br)]

\* part_002, the texts that ownerHtml embeds: the service (in the heading
\* and in the table), the name, the email (in the href of the mailto link
\* and as its text), phone || "-", req.body?.pageUrl || "-" and the message
P2_OwnerHtml(b) ==
    [title   |-> escapeHtml(b.service),
     name    |-> escapeHtml(b.name),
     mailto  |-> escapeHtml(b.email),
     email   |-> escapeHtml(b.email),
     phone   |-> escapeHtml(Or(b.phone, Dash)),
     service |-> escapeHtml(b.service),
     pageUrl |-> escapeHtml(Or(b.pageUrl, Dash)),
     message |-> ReplaceAll(escapeHtml(b.message), "\n", Br)]

\* the owner message part_002 starts for q, with its html
P2_OwnerMail(q) ==
    [kind |-> "owner", to |-> env.MAIL_TO, replyTo |-> q.body.email,
     id |-> q.id, result |-> "pending", html |-> P2_OwnerHtml(q.body)]

\* part_000, sendLeadMail up to transporter.sendMail: its exceptions are
\* answered by the catch of handleEmail with err.message
P0_sendLeadMail(q) ==
    IF ~Truthy(env.MAIL_TO) THEN Respond(q, 500, "MAIL_TO missing")
    ELSE IF ~getMailer THEN Respond(q, 500, "SMTP config missing")
    ELSE [q EXCEPT !.pc = "owner", !.mails = Append(@, OwnerMail(q))]

\* part_001, handleEmailLead after insertLead
P1_AfterInsert(q) ==
    IF ~Truthy(env.MAIL_TO) THEN Respond(q, 500, "MAIL_TO missing")
    ELSE IF ~getMailer THEN Respond(q, 500, "SMTP config missing")
    ELSE [q EXCEPT !.pc = "owner", !.mails = Append(@, OwnerMail(q))]

\* part_002, handleEmailLead after insertLead: the transporter is tested
\* before MAIL_TO
P2_AfterInsert(q) ==
    IF ~getMailer THEN Respond(q, 500, "SMTP config missing")
    ELSE IF ~Truthy(env.MAIL_TO) THEN Respond(q, 500, "MAIL_TO missing")
    ELSE [q EXCEPT !.pc = "owner", !.mails = Append(@, P2_OwnerMail(q))]

\* err?.message of a rejected send: empty when the error has no message or
\* is no Error at all
ErrMessages == {"", "ECONNREFUSED"}

\* part_000, handleEmail once the send of sendLeadMail settles: the answer
\* follows, there is no confirmation; a rejection is answered with
\* err?.message || "Email send failed"
P0_OwnerSettled(q, ok, msg) ==
    IF ok THEN Respond([q EXCEPT !.mails = Settle(@, ok)], 200, "")
    ELSE Respond([q EXCEPT !.mails = Settle(@, ok)], 500,
                 IF msg # "" THEN msg ELSE "Email send failed")

\* part_001, handleEmailLead once the owner send settles
P1_OwnerSettled(q, ok) ==
    IF ok THEN [q EXCEPT !.pc = "confirm",
                         !.mails = Append(Settle(@, ok), LaterConfirmMail(q)),
                         !.html = P1_ConfirmHtml(q.body)]
    ELSE Respond([q EXCEPT !.mails = Settle(@, ok)], 500, "Email send failed")

\* part_002, handleEmailLead once the owner send settles
P2_OwnerSettled(q, ok) ==
    IF ok THEN [q EXCEPT !.pc = "confirm",
                         !.mails = Append(Settle(@, ok), LaterConfirmMail(q)),
                         !.html = P2_ConfirmHtml(q.body)]
    ELSE Respond([q EXCEPT !.mails = Settle(@, ok)], 500, "Email send failed")

\* ---- the store, the end of the handlers and the admin routes of the
\* ---- earlier versions

\* part_000, insertLead: the row its INSERT writes for the payload of q when
\* the store assigns id
P0_insertLead(q, id) ==
    [id |-> id, createdAt |-> q.createdAt, name |-> q.body.name,
     email |-> q.body.email, phone |-> Or(q.body.phone, <<>>),
     service |-> q.body.service, message |-> q.body.message,
     source |-> Or(q.source, SrcUnknown)]

\* part_000, POST /api/leads and handleEmail once insertLead settles: the catch of
\* handleEmail answers a rejected insert with err?.message ||
\* "Email send failed"
P0_InsertSettled(q, ok, id, msg) ==
    IF q.kind = "leads"
    THEN IF ok THEN Respond([q EXCEPT !.id = id], 200, "")
         ELSE Respond(q, 500, "Insert failed")
    ELSE IF ok THEN P0_sendLeadMail([q EXCEPT !.id = id])
         ELSE Respond(q, 500, IF msg # "" THEN msg ELSE "Email send failed")

\* part_000, requireAdmin: the status it answers with, 0 when it calls next()
P0_requireAdmin(hdr, qtok) ==
    LET bearer == IF hdr = UNDEF THEN UNDEF ELSE Replace(hdr, Bearer, <<>>)
        token  == Or(bearer, qtok)
    IN  IF ~Truthy(ADMIN_TOKEN) THEN 500
        ELSE IF token # ADMIN_TOKEN THEN 401
        ELSE 0

\* part_000, an admin route up to the call of the store
P0_Admin(q) ==
    LET st == P0_requireAdmin(q.hdr, q.qtok)
    IN  IF st = 500 THEN Respond(q, 500, "ADMIN_TOKEN missing")
        ELSE IF st = 401 THEN Respond(q, 401, "Unauthorized")
        ELSE [q EXCEPT !.pc = q.kind]

\* part_000, the callback of db.all in GET /api/admin/leads
P0_ListDone(q, ok, rows) ==
    IF ok THEN Respond([q EXCEPT !.rows = rows], 200, "")
    ELSE Respond(q, 500, "DB read failed")

\* part_000, the rows its DELETE FROM leads WHERE id = ? removes
P0_Gone(idp) == {l \in leads : l.id = idp}

\* part_000, the callback of db.run in DELETE /api/admin/leads/:id, with
\* this.changes
P0_DeleteDone(q, ok, changes) ==
    IF ok THEN Respond([q EXCEPT !.deleted = changes], 200, "")
    ELSE Respond(q, 500, "DB delete failed")

\* part_001, insertLead: the row its INSERT writes for the payload of q when
\* the store assigns id
P1_insertLead(q, id) ==
    [id |-> id, createdAt |-> q.createdAt, name |-> q.body.name,
     email |-> q.body.email, phone |-> Or(q.body.phone, <<>>),
     service |-> q.body.service, message |-> q.body.message,
     source |-> Or(q.source, SrcUnknown)]

\* part_001, POST /api/leads and handleEmailLead once insertLead settles: a
\* rejected insert ends in the catch of the handler
P1_InsertSettled(q, ok, id) ==
    IF q.kind = "leads"
    THEN IF ok THEN Respond([q EXCEPT !.id = id], 200, "")
         ELSE Respond(q, 500, "Insert failed")
    ELSE IF ok THEN P1_AfterInsert([q EXCEPT !.id = id])
         ELSE Respond(q, 500, "Email send failed")

\* a part_001 that answers 200 whatever the confirmation did
P1_ConfirmSettled_Always200(q, ok) ==
    Respond([q EXCEPT !.mails = Settle(@, ok)], 200, "")

\* part_001, handleEmailLead once the send of the confirmation settles
P1_ConfirmSettled(q, ok) ==
    IF ok THEN Respond([q EXCEPT !.mails = Settle(@, ok)], 200, "")
    ELSE Respond([q EXCEPT !.mails = Settle(@, ok)], 500, "Email send failed")

\* part_001, requireAdmin: the status it answers with, 0 when it calls next()
P1_requireAdmin(hdr, qtok) ==
    LET bearer == IF hdr = UNDEF THEN UNDEF ELSE Replace(hdr, Bearer, <<>>)
        token  == Or(bearer, qtok)
    IN  IF ~Truthy(ADMIN_TOKEN) THEN 500
        ELSE IF token # ADMIN_TOKEN THEN 401
        ELSE 0

\* part_001, an admin route up to the call of the store
P1_Admin(q) ==
    LET st == P1_requireAdmin(q.hdr, q.qtok)
    IN  IF st = 500 THEN Respond(q, 500, "ADMIN_TOKEN missing")
        ELSE IF st = 401 THEN Respond(q, 401, "Unauthorized")
        ELSE [q EXCEPT !.pc = q.kind]

\* part_001, the callback of db.all in GET /api/admin/leads
P1_ListDone(q, ok, rows) ==
    IF ok THEN Respond([q EXCEPT !.rows = rows], 200, "")
    ELSE Respond(q, 500, "DB read failed")

\* part_001, the rows its DELETE FROM leads WHERE id = ? removes
P1_Gone(idp) == {l \in leads : l.id = idp}

\* part_001, the callback of db.run in DELETE /api/admin/leads/:id, with
\* this.changes
P1_DeleteDone(q, ok, changes) ==
    IF ok THEN Respond([q EXCEPT !.deleted = changes], 200, "")
    ELSE Respond(q, 500, "DB delete failed")

\* part_002, insertLead: the row its INSERT writes for the payload of q when
\* the store assigns id
P2_insertLead(q, id) ==
    [id |-> id, createdAt |-> q.createdAt, name |-> q.body.name,
     email |-> q.body.email, phone |-> Or(q.body.phone, <<>>),
     service |-> q.body.service, message |-> q.body.message,
     source |-> Or(q.source, SrcUnknown)]

\* part_002, POST /api/leads and handleEmailLead once insertLead settles: a
\* rejected insert ends in the catch of the handler
P2_InsertSettled(q, ok, id) ==
    IF q.kind = "leads"
    THEN IF ok THEN Respond([q EXCEPT !.id = id], 200, "")
         ELSE Respond(q, 500, "Insert failed")
    ELSE IF ok THEN P2_AfterInsert([q EXCEPT !.id = id])
         ELSE Respond(q, 500, "Email send failed")

\* part_002, handleEmailLead once the send of the confirmation settles
P2_ConfirmSettled(q, ok) ==
    IF ok THEN Respond([q EXCEPT !.mails = Settle(@, ok)], 200, "")
    ELSE Respond([q EXCEPT !.mails = Settle(@, ok)], 500, "Email send failed")

\* part_002, requireAdmin: the status it answers with, 0 when it calls next()
P2_requireAdmin(hdr, qtok) ==
    LET bearer == IF hdr = UNDEF THEN UNDEF ELSE Replace(hdr, Bearer, <<>>)
        token  == Or(bearer, qtok)
    IN  IF ~Truthy(ADMIN_TOKEN) THEN 500
        ELSE IF token # ADMIN_TOKEN THEN 401
        ELSE 0

\* part_002, an admin route up to the call of the store
P2_Admin(q) ==
    LET st == P2_requireAdmin(q.hdr, q.qtok)
    IN  IF st = 500 THEN Respond(q, 500, "ADMIN_TOKEN missing")
        ELSE IF st = 401 THEN Respond(q, 401, "Unauthorized")
        ELSE [q EXCEPT !.pc = q.kind]

\* part_002, the callback of db.all in GET /api/admin/leads
P2_ListDone(q, ok, rows) ==
    IF ok THEN Respond([q EXCEPT !.rows = rows], 200, "")
    ELSE Respond(q, 500, "DB read failed")

\* part_002, the rows its DELETE FROM leads WHERE id = ? removes
P2_Gone(idp) == {l \in leads : l.id = idp}

\* part_002, the callback of db.run in DELETE /api/admin/leads/:id, with
\* this.changes
P2_DeleteDone(q, ok, changes) ==
    IF ok THEN Respond([q EXCEPT !.deleted = changes], 200, "")
    ELSE Respond(q, 500, "DB delete failed")

\* the synchronous part of an admin route: requireAdmin, then the handler
\* hands its statement to the store
Admin(r, kind, hdr, qtok, idp) ==
    /\ Arrives(r)
    /\ LET q  == [req[r] EXCEPT !.kind = kind, !.hdr = hdr, !.qtok = qtok,
                                !.idp = idp]
           st == requireAdmin(hdr, qtok)
       IN  req' = [req EXCEPT ![r] =
             IF st # 0 THEN Respond(q, st, AuthError(st))
             ELSE [q EXCEPT !.pc = kind]]
    /\ UNCHANGED <<env, db, clock, leads, seq>>

\* app.get("/api/admin/leads", requireAdmin, ...)
GetAdminLeads(r, hdr, qtok) == Admin(r, "list", hdr, qtok, 0)

\* app.delete("/api/admin/leads/:id", requireAdmin, ...)
DeleteAdminLead(r, hdr, qtok, idp) == Admin(r, "delete", hdr, qtok, idp)

\* the callback of db.all
ListDone(r, ok) ==
    /\ req[r].pc = "list"
    /\ db = "open"
    /\ IF ok
       THEN \E rows \in SelectAll :
              req' = [req EXCEPT ![r] =
                Respond([@ EXCEPT !.rows = rows, !.before = StoredIds], 200, "")]
       ELSE req' = [req EXCEPT ![r] = Respond(@, 500, "DB read failed")]
    /\ UNCHANGED <<env, db, clock, leads, seq, nreq>>

\* a DELETE with WHERE id <= ?
Gone_UpTo(idp) == {l \in leads : l.id <= idp}

\* the rows DELETE FROM leads WHERE id = ? removes
Gone(idp) == {l \in leads : l.id = idp}

\* the store runs the DELETE and calls back (this.changes)
DeleteDone(r, ok) ==
    /\ req[r].pc = "delete"
    /\ db = "open"
    /\ IF ok
       THEN LET gone == Gone(req[r].idp)
            IN  /\ leads' = leads \ gone
                /\ req' = [req EXCEPT ![r] =
                      Respond([@ EXCEPT !.deleted = Cardinality(gone),
                                        !.before = StoredIds], 200, "")]
       ELSE /\ UNCHANGED leads
            /\ req' = [req EXCEPT ![r] = Respond(@, 500, "DB delete failed")]
    /\ UNCHANGED <<env, db, clock, seq, nreq>>

\* ------------------------------------------------------------ specification
\* The store and the notification under valid submissions and authenticated
\* admin requests.
Next ==
    \E r \in 1..MaxReqs :
         \/ \E b \in ValidBodies : PostLeads(r, b)
         \/ handleEmailLead(r, ValidBody)
         \/ \E ok \in BOOLEAN : insertLead(r, ok)
         \/ \E ok \in BOOLEAN : sendOwnerEmail(r, ok)
         \/ \E ok \in BOOLEAN : sendCustomerConfirmation(r, ok)
         \/ \E a \in GoodAuth : GetAdminLeads(r, a[1], a[2])
         \/ \E a \in GoodAuth, i \in IdParams :
              DeleteAdminLead(r, a[1], a[2], i)
         \/ \E ok \in BOOLEAN : ListDone(r, ok)
         \/ \E ok \in BOOLEAN : DeleteDone(r, ok)

Spec == InitWith({FullEnv}) /\ [][Next]_vars

\* The listing of leads submitted at different times.
NextClock ==
    \/ Tick
    \/ \E r \in 1..MaxReqs :
         \/ \E b \in ValidBodies : PostLeads(r, b)
         \/ \E ok \in BOOLEAN : insertLead(r, ok)
         \/ \E a \in GoodAuth : GetAdminLeads(r, a[1], a[2])
         \/ \E a \in GoodAuth, i \in IdParams :
              DeleteAdminLead(r, a[1], a[2], i)
         \/ \E ok \in BOOLEAN : ListDone(r, ok)
         \/ \E ok \in BOOLEAN : DeleteDone(r, ok)

SpecClock == InitWith({FullEnv}) /\ [][NextClock]_vars

\* Intake under valid and invalid bodies and every mail configuration.
NextIntake ==
    \E r \in 1..MaxReqs :
         \/ \E b \in Bodies : PostLeads(r, b)
         \/ \E b \in Bodies : handleEmailLead(r, b)
         \/ \E ok \in BOOLEAN : insertLead(r, ok)
         \/ \E ok \in BOOLEAN : sendOwnerEmail(r, ok)
         \/ \E ok \in BOOLEAN : sendCustomerConfirmation(r, ok)

SpecIntake == InitWith(MailEnvs) /\ [][NextIntake]_vars

\* Intake under matching and non-matching emails and submitted sources.
NextEmail ==
    \E r \in 1..MaxReqs :
         \/ \E b \in EmailBodies : PostLeads(r, b)
         \/ \E b \in EmailBodies : handleEmailLead(r, b)
         \/ insertLead(r, TRUE)
         \/ sendOwnerEmail(r, TRUE)
         \/ sendCustomerConfirmation(r, TRUE)

SpecEmail == InitWith({FullEnv}) /\ [][NextEmail]_vars

\* The process from the load of the module on, with requests that fail in
\* the middleware.
NextProcess ==
    \/ \E ok \in BOOLEAN : OpenDone(ok)
    \/ \E r \in 1..MaxReqs :
         \/ \E kind \in {"leads", "list"}, o \in Origins, bad \in BOOLEAN :
              Middleware(r, kind, o, bad)
         \/ \E b \in {ValidBody, [ValidBody EXCEPT !.name = UNDEF]} :
              PostLeads(r, b)
         \/ \E ok \in BOOLEAN : insertLead(r, ok)
         \/ \E a \in GoodAuth : GetAdminLeads(r, a[1], a[2])
         \/ \E ok \in BOOLEAN : ListDone(r, ok)

SpecProcess == Startup(CorsEnvs) /\ [][NextProcess]_vars

\* One store-and-notify submission whose texts need escaping.
NextHtml ==
    \/ \E b \in HtmlBodies : handleEmailLead(1, b)
    \/ insertLead(1, TRUE)
    \/ sendOwnerEmail(1, TRUE)
    \/ sendCustomerConfirmation(1, TRUE)

SpecHtml == InitWith({FullEnv}) /\ [][NextHtml]_vars

\* The listing under Authorization headers of every form, without a query
\* token.
NextBearer ==
    \E r \in 1..MaxReqs :
         \/ PostLeads(r, ValidBody)
         \/ insertLead(r, TRUE)
         \/ \E h \in BearerHeaders : GetAdminLeads(r, h, UNDEF)
         \/ \E ok \in BOOLEAN : ListDone(r, ok)

SpecBearer == InitWith({FullEnv}) /\ [][NextBearer]_vars

\* Intake under the inputs on which the versions of the server are compared.
\* a submission that names a source, and one with an invalid email
VersionBodies ==
    { [ValidBody EXCEPT !.source = Web], [ValidBody EXCEPT !.email = BadAt] }

\* the admin requests follow this many submissions
FirstSubmissions == 2

NextVersions ==
    \E r \in 1..MaxReqs :
         \/ \E b \in VersionBodies : PostLeads(r, b)
         \/ handleEmailLead(r, [ValidBody EXCEPT !.source = Web])
         \/ \E ok \in BOOLEAN : insertLead(r, ok)
         \/ \E ok \in BOOLEAN : sendOwnerEmail(r, ok)
         \/ \E ok \in BOOLEAN : sendCustomerConfirmation(r, ok)
         \/ /\ r > FirstSubmissions
            /\ \E h \in {Bearer \o Secret, Bearer \o Wrong} :
                 GetAdminLeads(r, h, UNDEF)
         \/ /\ r > FirstSubmissions
            /\ \E i \in IdParams :
                 DeleteAdminLead(r, Bearer \o Secret, UNDEF, i)
         \/ \E ok \in BOOLEAN : ListDone(r, ok)
         \/ \E ok \in BOOLEAN : DeleteDone(r, ok)

\* the requests arrive one clock advance after the store has opened, so
\* that the time handed to the store is not that of an idle record
SpecVersions ==
    /\ InitAt({[FullEnv EXCEPT !.MAIL_TO = UNDEF, !.SMTP_HOST = UNDEF,
                               !.ADMIN_TOKEN = UNDEF],
               [FullEnv EXCEPT !.REPLY_TO = ReplyAt, !.MAIL_FROM = FromAt,
                               !.SMTP_PORT = PortPadded]},
              {TickMs})
    /\ [][NextVersions]_vars

\* The admin routes under every header, query token and admin configuration.
NextAdmin ==
    \E r \in 1..MaxReqs :
         \/ PostLeads(r, ValidBody)
         \/ insertLead(r, TRUE)
         \/ \E a \in AuthInputs : GetAdminLeads(r, a[1], a[2])
         \/ \E a \in DeleteAuthInputs : DeleteAdminLead(r, a[1], a[2], 1)
         \/ \E ok \in BOOLEAN : ListDone(r, ok)
         \/ \E ok \in BOOLEAN : DeleteDone(r, ok)

SpecAdmin == InitWith(AdminEnvs) /\ [][NextAdmin]_vars

\* ------------------------------------------------------------------ claims
Reqs == 1..MaxReqs

Required == {"name", "email", "service", "message"}

IsIntake(q) == q.kind \in {"leads", "email"}
IsAdmin(q)  == q.kind \in {"list", "delete"}

\* r is received in this step
ReceivedNow(r) == req[r].pc = "idle" /\ req'[r].pc # "idle"

\* C1: on both intake endpoints a submission in which name, email, service
\* or message is empty or absent is answered 400 in the step that receives
\* it, the store holds the same rows afterwards, and no insert and no mail
\* send is started.
C1_MissingFieldsRejected ==
    [][\A r \in Reqs :
        (/\ ReceivedNow(r)
         /\ IsIntake(req'[r])
         /\ \E f \in Required : req'[r].body[f] \in {UNDEF, <<>>})
        => /\ req'[r].pc = "done"
           /\ req'[r].status = 400
           /\ req'[r].id = 0
           /\ req'[r].mails = <<>>
           /\ leads' = leads
           /\ seq' = seq]_vars

\* both endpoints have rejected a submission while the store holds a row
C1_Witness ==
    /\ leads # {}
    /\ \E r \in Reqs : /\ req[r].kind = "email"
                        /\ req[r].body.message = <<>>
                        /\ req[r].status = 400
    /\ \E r \in Reqs : /\ req[r].kind = "leads"
                        /\ req[r].body.name = UNDEF
                        /\ req[r].status = 400

\* MAIL_TO, SMTP_HOST, SMTP_USER or SMTP_PASS is unset or empty, or the port
\* is 0 (an unset port is the default port, which is a configuration)
MailUnconfigured ==
    \/ env.MAIL_TO \in {UNDEF, <<>>}
    \/ env.SMTP_HOST \in {UNDEF, <<>>}
    \/ env.SMTP_USER \in {UNDEF, <<>>}
    \/ env.SMTP_PASS \in {UNDEF, <<>>}
    \/ env.SMTP_PORT = Port0

\* the row of request q is stored with source src
RowStored(q, rows, src) ==
    \E l \in rows :
        /\ l.id = q.id
        /\ l.name = q.body.name /\ l.email = q.body.email
        /\ l.service = q.body.service /\ l.message = q.body.message
        /\ l.source = src

\* C2: a valid submission to the store-and-notify endpoint while the owner
\* destination or the mail transport is not configured is answered 500 as
\* soon as its insert settles, without any mail send; when the insert has
\* resolved the answer names the missing configuration and the lead is in
\* the store with source "email".
C2_StoredDespiteMisconfiguration ==
    [][\A r \in Reqs :
        (/\ req[r].pc = "insert"
         /\ req'[r] # req[r]
         /\ req[r].kind = "email"
         /\ MailUnconfigured)
        => /\ req'[r].pc = "done"
           /\ req'[r].status = 500
           /\ req'[r].mails = <<>>
           /\ seq' # seq =>
                /\ req'[r].error \in {"MAIL_TO missing", "SMTP config missing"}
                /\ RowStored(req'[r], leads', SrcEmail)]_vars

\* answered 500 for an empty SMTP_PASS, with the lead stored and no send
C2_Witness ==
    \E r \in Reqs :
        /\ req[r].kind = "email"
        /\ req[r].status = 500
        /\ req[r].error = "SMTP config missing"
        /\ env.SMTP_PASS = <<>>
        /\ RowStored(req[r], leads, SrcEmail)
        /\ req[r].mails = <<>>

\* C3: a store-and-notify request starts a mail send only after its own
\* insert has resolved with an id of the store, and a request whose insert
\* was rejected never starts one.
C3_InsertBeforeMail ==
    \A r \in Reqs :
        /\ req[r].mails # <<>> =>
              /\ req[r].kind = "email"
              /\ req[r].id \in 1..seq
              /\ \A k \in 1..Len(req[r].mails) : req[r].mails[k].id = req[r].id
        /\ req[r].pc \in {"idle", "insert"} => req[r].mails = <<>>
        /\ (req[r].pc = "done" /\ req[r].id = 0) => req[r].mails = <<>>

\* one request was rejected by the store, another has started its sends
C3_Witness ==
    \E r1, r2 \in Reqs :
        /\ req[r1].kind = "email" /\ req[r1].status = 500
        /\ req[r1].id = 0 /\ req[r1].createdAt = 0
        /\ ~MissingFields(req[r1].body) /\ isValidEmail(req[r1].body.email)
        /\ req[r2].kind = "email" /\ Len(req[r2].mails) = 2

\* the secret is configured through ADMIN_TOKEN or ADMIN_API_KEY
AdminConfigured ==
    env.ADMIN_TOKEN \notin {UNDEF, <<>>} \/ env.ADMIN_API_KEY \notin {UNDEF, <<>>}

ConfiguredSecret ==
    IF env.ADMIN_TOKEN \notin {UNDEF, <<>>} THEN env.ADMIN_TOKEN
    ELSE env.ADMIN_API_KEY

\* the admin request got past the guard: its statement is with the store, or
\* it was answered by the list or delete handler
Reached(q) ==
    \/ q.pc \in {"list", "delete"}
    \/ q.pc = "done" /\ q.error \in {"", "DB read failed", "DB delete failed"}

\* the admin request was answered by the guard with status st and message
\* err, and the store was neither read nor changed for it
Refused(q, st, err) ==
    /\ q.pc = "done" /\ q.status = st /\ q.error = err
    /\ q.rows = <<>> /\ q.deleted = 0 /\ q.before = {}

\* the token an Authorization header carries
HeaderToken(h) == IF h = UNDEF THEN UNDEF ELSE Replace(h, Bearer, <<>>)

\* C4: with a configured secret, an admin request that provides a token in
\* one place (the header or the query parameter) reaches its handler exactly
\* when that token equals the secret; a request with no token, an empty
\* token or a differing token is answered 401 without the store being read
\* or changed, and no request reaches a handler without carrying the secret.
C4_ExactTokenOnly ==
    AdminConfigured =>
      \A r \in Reqs : IsAdmin(req[r]) =>
        LET q == req[r]
            provided == IF q.hdr = UNDEF THEN q.qtok ELSE HeaderToken(q.hdr)
        IN  /\ Reached(q) \/ Refused(q, 401, "Unauthorized")
            /\ Reached(q) => ConfiguredSecret \in {HeaderToken(q.hdr), q.qtok}
            /\ (q.hdr = UNDEF \/ q.qtok = UNDEF) =>
                  (Reached(q) <=> provided = ConfiguredSecret)

\* with a row stored, the secret in the query parameter has listed it and a
\* delete without a token has been refused
C4_Witness ==
    /\ leads # {}
    /\ \E r \in Reqs : /\ req[r].kind = "list" /\ req[r].status = 200
                        /\ req[r].hdr = UNDEF /\ req[r].qtok = Secret
                        /\ Len(req[r].rows) = 1
    /\ \E r \in Reqs : /\ req[r].kind = "delete" /\ req[r].status = 401
                        /\ req[r].hdr = UNDEF /\ req[r].qtok = UNDEF

\* C5: when neither ADMIN_TOKEN nor ADMIN_API_KEY is set to a non-empty
\* value, every admin request is answered 500 "ADMIN_TOKEN missing" by the
\* guard, whatever token it carries, and never reaches the list or delete
\* handler.
C5_UnconfiguredDeniesAll ==
    ~AdminConfigured =>
      \A r \in Reqs : IsAdmin(req[r]) =>
        /\ ~Reached(req[r])
        /\ Refused(req[r], 500, "ADMIN_TOKEN missing")

\* unconfigured, a request with an empty token and one with no token got 500
C5_Witness ==
    /\ env.ADMIN_TOKEN = <<>> /\ env.ADMIN_API_KEY = <<>>
    /\ leads # {}
    /\ \E r \in Reqs : /\ req[r].kind = "list" /\ req[r].status = 500
                        /\ req[r].hdr = UNDEF /\ req[r].qtok = <<>>
    /\ \E r \in Reqs : /\ req[r].kind = "delete" /\ req[r].status = 500
                        /\ req[r].hdr = UNDEF /\ req[r].qtok = UNDEF

\* C6 as stated: the token is the header's whenever the header is present,
\* the query parameter's only when the header is absent.
C6_HeaderWheneverPresent ==
    AdminConfigured =>
      \A r \in Reqs : IsAdmin(req[r]) =>
        (Reached(req[r]) <=>
           ConfiguredSecret = (IF req[r].hdr # UNDEF THEN HeaderToken(req[r].hdr)
                               ELSE req[r].qtok))

\* C6, amended: the token is the header's when the header is present and
\* is not empty once "Bearer " is removed, otherwise the query parameter's;
\* a header with a wrong token is not overridden by a correct query token, a
\* header with an empty token is.
C6_HeaderUnlessEmpty ==
    AdminConfigured =>
      \A r \in Reqs : IsAdmin(req[r]) =>
        (Reached(req[r]) <=>
           ConfiguredSecret =
             (IF req[r].hdr # UNDEF /\ HeaderToken(req[r].hdr) # <<>>
              THEN HeaderToken(req[r].hdr) ELSE req[r].qtok))

\* a wrong header token beat a correct query token, a correct header token
\* beat a wrong query token, and an empty header token gave way to the query
C6_Witness ==
    /\ \E r \in Reqs : /\ req[r].kind = "list" /\ req[r].status = 401
                        /\ req[r].hdr = Bearer \o Wrong /\ req[r].qtok = Secret
    /\ \E r \in Reqs : /\ req[r].kind = "list" /\ req[r].status = 200
                        /\ req[r].hdr = Bearer \o Secret /\ req[r].qtok = Wrong
    /\ \E r \in Reqs : /\ req[r].kind = "list" /\ req[r].status = 200
                        /\ req[r].hdr = Bearer /\ req[r].qtok = Secret

\* the list of l answered in this step holds exactly one row with the id and
\* the submitted values of every answered POST /api/leads whose row is still
\* stored; Src(b) is the source expected for body b
ListedAsSubmitted(Src(_)) ==
    \A l \in Reqs :
      (req[l].pc = "list" /\ req'[l].status = 200) =>
        \A r \in Reqs :
          (req[r].kind = "leads" /\ req[r].status = 200
             /\ req[r].id \in StoredIds) =>
            LET b    == req[r].body
                rows == req'[l].rows
                hits == {k \in 1..Len(rows) : rows[k].id = req[r].id}
            IN  /\ Cardinality(hits) = 1
                /\ \A k \in hits :
                     /\ rows[k].name = b.name /\ rows[k].email = b.email
                     /\ rows[k].service = b.service
                     /\ rows[k].message = b.message
                     /\ rows[k].phone = (IF b.phone = UNDEF THEN <<>> ELSE b.phone)
                     /\ rows[k].source = Src(b)

\* POST /api/leads of r is answered with its id in this step
LeadAnsweredNow(r) ==
    req[r].kind = "leads" /\ req[r].pc = "insert" /\ req'[r].status = 200

SourceOrUnknownIfAbsent(b) == IF b.source = UNDEF THEN SrcUnknown ELSE b.source

SourceOrUnknownIfFalsy(b) ==
    IF b.source \in {UNDEF, <<>>} THEN SrcUnknown ELSE b.source

\* C7 as stated: a listing after a successful POST /api/leads holds exactly
\* one row with its id and the submitted values, phone "" when absent and
\* source "unknown" when absent; the first such submission, made on an empty
\* store, gets id 1.
C7_ListedAndFirstIdOnEmptyStore ==
    [][/\ ListedAsSubmitted(SourceOrUnknownIfAbsent)
       /\ \A r \in Reqs :
            (/\ LeadAnsweredNow(r)
             /\ leads = {}
             /\ \A o \in Reqs : req[o].kind = "leads" => req[o].id = 0)
            => req'[r].id = 1]_vars

\* C7, amended: a listing after a successful POST /api/leads holds exactly
\* one row with its id and the submitted values, phone "" when absent and
\* source "unknown" when absent or empty, as long as the row was not
\* deleted; a submission to a table that never assigned an id gets id 1.
C7_ListedAndFirstIdOnNewTable ==
    [][/\ ListedAsSubmitted(SourceOrUnknownIfFalsy)
       /\ \A r \in Reqs :
            (LeadAnsweredNow(r) /\ seq = 0) => req'[r].id = 1]_vars

\* a listing of two rows: the first lead of a new table with id 1 and an
\* empty source, and a lead with a phone and a source
C7_Witness ==
    \E l, r1, r2 \in Reqs :
        /\ req[l].kind = "list" /\ req[l].status = 200 /\ Len(req[l].rows) = 2
        /\ req[r1].kind = "leads" /\ req[r1].status = 200
        /\ req[r1].body.source = <<>> /\ req[r1].id = 1 /\ req[r1].before = {}
        /\ req[r2].kind = "leads" /\ req[r2].status = 200
        /\ req[r2].body.source = Web /\ req[r2].body.phone = Tel
        /\ {req[r1].id, req[r2].id} = req[l].before

\* C8: the id of every successful insert is larger than every id assigned
\* before it, stored or deleted since, so ids are pairwise distinct,
\* increase in insertion order and are never assigned again.
C8_IdsNeverReused ==
    [][\A r \in Reqs :
        (req[r].id = 0 /\ req'[r].id # 0) =>
          /\ \A o \in Reqs : req[o].id # 0 => req'[r].id > req[o].id
          /\ req'[r].id \notin StoredIds
          /\ \E l \in leads' : l.id = req'[r].id]_vars

\* id 1 was the highest id, was deleted, and the next insert into the then
\* empty table got id 2
C8_Witness ==
    \E r1, d, r2 \in Reqs :
        /\ req[r1].id = 1
        /\ req[d].kind = "delete" /\ req[d].idp = 1 /\ req[d].deleted = 1
        /\ req[r2].id = 2 /\ req[r2].before = {}

\* C9: an authenticated DELETE whose statement the store ran is answered
\* ok:true with deleted = 1 and removes exactly the row with that id when
\* the id is stored, and with deleted = 0 and the rows unchanged when it is
\* not.
C9_DeleteRemovesExactlyThatId ==
    [][\A d \in Reqs :
        (/\ req[d].pc = "delete"
         /\ req'[d].pc = "done"
         /\ req'[d].error # "DB delete failed")
        => /\ req'[d].status = 200
           /\ req'[d].error = ""
           /\ IF req[d].idp \in StoredIds
              THEN /\ req'[d].deleted = 1
                   /\ leads' = {l \in leads : l.id # req[d].idp}
                   /\ Cardinality(leads') = Cardinality(leads) - 1
              ELSE /\ req'[d].deleted = 0
                   /\ leads' = leads]_vars

\* the id of the one stored row was deleted twice, with answers 1 and 0
C9_Witness ==
    \E d1, d2 \in Reqs :
        /\ req[d1].kind = "delete" /\ req[d2].kind = "delete"
        /\ req[d1].idp = req[d2].idp
        /\ req[d1].status = 200 /\ req[d1].deleted = 1
        /\ req[d2].status = 200 /\ req[d2].deleted = 0
        /\ req[d1].before = {req[d1].idp}
        /\ req[d2].before = {}

\* C10: an authenticated listing returns every stored lead, and of two
\* returned rows with different createdAt the one with the later createdAt
\* comes first.
C10_NewestFirst ==
    \A l \in Reqs :
      (req[l].kind = "list" /\ req[l].status = 200) =>
        LET rows == req[l].rows
        IN  /\ {rows[k].id : k \in 1..Len(rows)} = req[l].before
            /\ \A i, j \in 1..Len(rows) :
                 rows[i].createdAt > rows[j].createdAt => i < j

\* the pattern local@domain.tld read on the value without its surrounding
\* whitespace, as the code tests it: no whitespace, one "@" after a
\* non-empty local part, and a dot of the domain with at least one character
\* before it and at least two after it
MatchesPattern(email) ==
    LET s     == Trim(email)
        ats   == {i \in 1..Len(s) : s[i] = "@"}
        at    == CHOOSE i \in ats : TRUE
        local == SubSeq(s, 1, at - 1)
        dom   == SubSeq(s, at + 1, Len(s))
    IN  /\ Cardinality(ats) = 1
        /\ \A i \in 1..Len(s) : ~IsSpace(s[i])
        /\ local # <<>>
        /\ \E d \in 1..Len(dom) : dom[d] = "." /\ d >= 2 /\ Len(dom) - d >= 2

\* r is received in this step on an intake endpoint with all required fields
CompleteNow(r) ==
    /\ ReceivedNow(r)
    /\ IsIntake(req'[r])
    /\ \A f \in Required : req'[r].body[f] \notin {UNDEF, <<>>}

\* C11: on both intake endpoints a submission with all required fields whose
\* email does not match the pattern is answered 400 "Invalid email" in the
\* step that receives it and adds no row; one whose email matches passes
\* validation, and the row the store writes for it carries the submitted
\* email.
C11_InvalidEmailRejected ==
    [][\A r \in Reqs :
        /\ (CompleteNow(r) /\ ~MatchesPattern(req'[r].body.email))
             => /\ req'[r].pc = "done"
                /\ req'[r].status = 400
                /\ req'[r].error = "Invalid email"
                /\ req'[r].id = 0
                /\ leads' = leads /\ seq' = seq
        /\ (CompleteNow(r) /\ MatchesPattern(req'[r].body.email))
             => req'[r].pc = "insert"
        /\ (IsIntake(req[r]) /\ req[r].pc = "insert" /\ req'[r].id # 0)
             => /\ MatchesPattern(req[r].body.email)
                /\ RowStored(req'[r], leads', Or(req[r].source, SrcUnknown))
                /\ Cardinality(leads') = Cardinality(leads) + 1]_vars

\* both endpoints have refused an email (no "@"; a one-character last part)
\* and a@b.co is stored
C11_Witness ==
    /\ \E r \in Reqs : /\ req[r].kind = "leads" /\ req[r].body.email = NotAnEmail
                        /\ req[r].status = 400 /\ req[r].error = "Invalid email"
    /\ \E r \in Reqs : /\ req[r].kind = "email" /\ req[r].body.email = ShortTld
                        /\ req[r].status = 400 /\ req[r].error = "Invalid email"
    /\ \E r \in Reqs : /\ req[r].body.email = AnnAt /\ req[r].id # 0
                        /\ \E l \in leads : l.id = req[r].id /\ l.email = AnnAt
    /\ Cardinality(leads) = 1

\* C12: with mail fully configured, a store-and-notify request is answered
\* 200 only in the step in which its confirmation send succeeds, and has
\* then started exactly two messages, both sent: first the owner message to
\* MAIL_TO with reply-to the submitted email, then the confirmation to the
\* submitted email.
C12_TwoMessagesThenSuccess ==
    [][\A r \in Reqs :
        /\ (req[r].pc = "confirm" /\ req'[r].pc = "done"
              /\ req'[r].mails[2].result = "sent") => req'[r].status = 200
        /\ (req[r].kind = "email" /\ req[r].status # 200 /\ req'[r].status = 200)
             => LET ms == req'[r].mails
                IN  /\ req[r].pc = "confirm"
                    /\ req'[r].id \in 1..seq
                    /\ Len(ms) = 2
                    /\ ms[1] = [kind |-> "owner", to |-> env.MAIL_TO,
                                replyTo |-> req[r].body.email,
                                id |-> req'[r].id, result |-> "sent"]
                    /\ ms[2] = [kind |-> "confirm", to |-> req[r].body.email,
                                replyTo |-> UNDEF, id |-> req'[r].id,
                                result |-> "sent"]
                    /\ Len(req[r].mails) = 2
                    /\ req[r].mails[1] = ms[1]
                    /\ req[r].mails[2].result = "pending"]_vars

\* a store-and-notify request was answered 200 after both of its sends
C12_Witness ==
    \E r \in Reqs :
        /\ req[r].kind = "email" /\ req[r].status = 200 /\ req[r].pc = "done"
        /\ Len(req[r].mails) = 2
        /\ req[r].mails[1].to = OwnerAt /\ req[r].mails[1].replyTo = AnnAt
        /\ req[r].mails[2].to = AnnAt
        /\ \A k \in 1..2 : req[r].mails[k].result = "sent"

\* C13: with mail fully configured, every answered store-and-notify request
\* whose insert resolved has attempted both the owner send and the customer
\* confirmation, also when the owner send failed, and is answered with an
\* error when a send failed.
C13_BothSendsAttempted ==
    (Truthy(env.MAIL_TO) /\ getMailer) =>
      \A r \in Reqs :
        (req[r].kind = "email" /\ req[r].pc = "done" /\ req[r].id # 0) =>
          /\ {req[r].mails[k].kind : k \in 1..Len(req[r].mails)}
               = {"owner", "confirm"}
          /\ (\E k \in 1..Len(req[r].mails) : req[r].mails[k].result = "failed")
               => req[r].status = 500

\* C14: a store-and-notify request answered 500 "Email send failed" has a
\* row of its own that the store wrote before the answer: it has an id of
\* the store and has started a send.
C14_SendFailureAfterInsert ==
    \A r \in Reqs :
      (req[r].kind = "email" /\ req[r].status = 500
         /\ req[r].error = "Email send failed") =>
        /\ req[r].id \in 1..seq
        /\ req[r].mails # <<>>

\* the kinds of the messages started for q
Kinds(q) == {q.mails[k].kind : k \in 1..Len(q.mails)}

\* C15: a request gets an id once, in a step that adds exactly one row;
\* each of the two messages is started at most once; a failed send ends the
\* request with a 500 in the same step and leaves the rows as they are; an
\* answered request does nothing further; and a row leaves the store only
\* through an admin delete.
C15_NoRetryNoRollback ==
    [][/\ \A r \in Reqs :
            /\ req[r].id # 0 => req'[r].id = req[r].id
            /\ (req[r].id = 0 /\ req'[r].id # 0) =>
                  /\ Cardinality(leads') = Cardinality(leads) + 1
                  /\ req[r].pc = "insert"
            /\ req[r].pc \notin {"idle", "insert"} => req'[r].pc # "insert"
            /\ Len(req'[r].mails) \in {Len(req[r].mails), Len(req[r].mails) + 1}
            /\ Cardinality(Kinds(req'[r])) = Len(req'[r].mails)
            /\ (/\ req[r].mails # <<>>
                /\ req[r].mails[Len(req[r].mails)].result = "pending"
                /\ req'[r].mails[Len(req[r].mails)].result = "failed")
               => /\ req'[r].pc = "done"
                  /\ req'[r].status = 500
                  /\ req'[r].mails = Settle(req[r].mails, FALSE)
                  /\ leads' = leads
                  /\ req[r].id \in StoredIds => req[r].id \in {l.id : l \in leads'}
            /\ req[r].pc = "done" => req'[r] = req[r]
       /\ leads \ leads' # {} =>
            \E d \in Reqs : req[d].pc = "delete" /\ req'[d].pc = "done"]_vars

\* the owner send of one request and the confirmation of another have
\* failed, both requests are answered 500 and both leads are stored
C15_Witness ==
    \E r1, r2 \in Reqs :
        /\ req[r1].pc = "done" /\ req[r1].status = 500
        /\ Len(req[r1].mails) = 1 /\ req[r1].mails[1].result = "failed"
        /\ req[r2].pc = "done" /\ req[r2].status = 500
        /\ Len(req[r2].mails) = 2 /\ req[r2].mails[2].result = "failed"
        /\ {req[r1].id, req[r2].id} = StoredIds
        /\ Cardinality(leads) = 2

\* an admin delete has removed the row with id i
Deleted(i) ==
    \E d \in Reqs : req[d].kind = "delete" /\ req[d].idp = i /\ req[d].deleted = 1

\* C16: under every interleaving of intake requests, a request answered 200
\* carries an id, the ids of different requests differ, every id that no
\* admin delete removed has exactly one row, which holds the field values
\* and the creation time of its own request, and the store holds no other
\* rows.
C16_OneRowPerRequest ==
    /\ \A r \in Reqs :
         /\ (IsIntake(req[r]) /\ req[r].status = 200) => req[r].id # 0
         /\ req[r].id # 0 =>
              /\ \A o \in Reqs \ {r} : req[o].id # req[r].id
              /\ ~Deleted(req[r].id) =>
                   LET own == {l \in leads : l.id = req[r].id}
                       b   == req[r].body
                   IN  /\ Cardinality(own) = 1
                       /\ \A l \in own :
                            /\ l.name = b.name /\ l.email = b.email
                            /\ l.service = b.service /\ l.message = b.message
                            /\ l.phone = (IF b.phone = UNDEF THEN <<>> ELSE b.phone)
                            /\ l.source = (IF req[r].kind = "email" THEN SrcEmail
                                           ELSE SourceOrUnknownIfFalsy(b))
                            /\ l.createdAt = req[r].createdAt
    /\ \A l \in leads : \E r \in Reqs : IsIntake(req[r]) /\ req[r].id = l.id
    /\ Cardinality(leads) = Cardinality(StoredIds)

\* two submissions with different bodies were in flight together: the one
\* received second was inserted first, and each is answered with its own id
C16_Witness ==
    /\ req[1].kind = "leads" /\ req[2].kind = "leads"
    /\ req[1].status = 200 /\ req[2].status = 200
    /\ req[1].body # req[2].body
    /\ req[1].id = 2 /\ req[2].id = 1
    /\ req[2].before = {} /\ req[1].before = {1}
    /\ Cardinality(leads) = 2

\* q waits for a mail send to settle
Waiting(q) == q.pc \in {"owner", "confirm"}

\* C17: while a request waits for a mail send that has not settled, its own
\* lead has been inserted (and is stored unless an admin delete removed it),
\* a new intake or admin request can be received and validated, and every
\* other request whose statement is with the store can have it run and be
\* answered.
C17_WaitingBlocksOnlyItself ==
    \A w \in Reqs : Waiting(req[w]) =>
      /\ req[w].id \in 1..seq
      /\ ~Deleted(req[w].id) => req[w].id \in StoredIds
      /\ nreq < MaxReqs =>
           /\ ENABLED PostLeads(nreq + 1, ValidBody)
           /\ ENABLED handleEmailLead(nreq + 1, ValidBody)
           /\ ENABLED GetAdminLeads(nreq + 1, Bearer \o Secret, UNDEF)
           /\ ENABLED DeleteAdminLead(nreq + 1, Bearer \o Secret, UNDEF, 1)
      /\ \A o \in Reqs \ {w} :
           /\ req[o].pc = "insert" => ENABLED insertLead(o, TRUE)
           /\ req[o].pc = "list" => ENABLED ListDone(o, TRUE)
           /\ req[o].pc = "delete" => ENABLED DeleteDone(o, TRUE)

\* the owner send of the first request has not settled; a submission
\* received after it is stored and answered, and a listing received after
\* both is answered with the two rows
C17_Witness ==
    /\ req[1].kind = "email" /\ req[1].pc = "owner"
    /\ req[1].mails[1].result = "pending"
    /\ req[2].kind = "leads" /\ req[2].status = 200 /\ req[2].id = 2
    /\ req[3].kind = "list" /\ req[3].status = 200
    /\ req[3].before = {req[1].id, req[2].id}

\* C18: when the open of the store has failed and the process has exited,
\* no request was received, validated or answered since the server started
\* to listen.
C18_ExitBeforeServing ==
    db = "exit" => \A r \in Reqs : req[r].pc = "idle" /\ req[r].status = 0

\* C19: every request to an intake or admin endpoint that is answered with
\* an error status is answered with the JSON envelope {ok:false, error}
\* with a non-empty error string, whether the error is a validation,
\* configuration, storage, mail or authorization failure, a malformed JSON
\* body or a refused origin.
C19_UniformEnvelope ==
    \A r \in Reqs :
      (req[r].pc = "done" /\ req[r].status >= 400) =>
        /\ req[r].ctype = "json"
        /\ req[r].error # ""

\* C20: the row of every lead inserted through the store-and-notify
\* endpoint has source "email", whatever source its body carries; the row of
\* a lead inserted through the store-only endpoint has the source of its
\* body, or "unknown" when the body has none; and every row is the row of a
\* request.
C20_SourceForcedForEmail ==
    /\ \A r \in Reqs : req[r].id # 0 =>
         \E l \in leads :
            /\ l.id = req[r].id
            /\ req[r].kind = "email" => l.source = SrcEmail
            /\ req[r].kind = "leads" =>
                 l.source = SourceOrUnknownIfFalsy(req[r].body)
    /\ \A l \in leads : \E r \in Reqs : req[r].id = l.id

\* the same body with source "web" is stored as "email" through one
\* endpoint and as "web" through the other, and a body without a source is
\* stored as "unknown"
C20_Witness ==
    \E e, w, u \in Reqs :
        /\ req[e].kind = "email" /\ req[e].body.source = Web
        /\ req[w].kind = "leads" /\ req[w].body.source = Web
        /\ req[u].kind = "leads" /\ req[u].body.source = UNDEF
        /\ \E l \in leads : l.id = req[e].id /\ l.source = SrcEmail
        /\ \E l \in leads : l.id = req[w].id /\ l.source = Web
        /\ \E l \in leads : l.id = req[u].id /\ l.source = SrcUnknown

\* the entity of a character, or the character itself
Entity(c) ==
    CASE c = "&" -> AmpEnt [] c = "<" -> LtEnt [] c = ">" -> GtEnt
      [] c = "\"" -> QuotEnt [] c = "'" -> AposEnt [] OTHER -> <<c>>

\* every character of s replaced by its entity, once
RECURSIVE EscapedOnce(_)
EscapedOnce(s) ==
    IF s = <<>> THEN <<>> ELSE Entity(Head(s)) \o EscapedOnce(Tail(s))

\* t holds none of < > " ' and holds & only at the start of an entity
Safe(t) ==
    \A i \in 1..Len(t) :
        /\ t[i] \notin {"<", ">", "\"", "'"}
        /\ t[i] = "&" =>
             \E e \in {AmpEnt, LtEnt, GtEnt, QuotEnt, AposEnt} : MatchesAt(t, e, i)

\* what a template embeds of the text s when a missing s is written as "-"
OrDash(s) == IF s = UNDEF \/ s = <<>> THEN Dash ELSE s

\* C21: the name, service, phone and message that the confirmation embeds
\* into its html are the submitted texts with every character replaced by
\* its entity exactly once; they hold none of < > " ' and hold & only at
\* the start of an entity (in the message, apart from the <br/> that the
\* template puts for a line break after the escaping).  The same holds of
\* the texts that the confirmation of part_001 embeds for the same
\* submission, and of those that the confirmation and the owner message of
\* part_002 embed, the email and the pageUrl among them.
C21_EmbeddedTextsEscaped ==
    \A r \in Reqs :
      LET h == req[r].html
          b == req[r].body
      IN  /\ (req[r].kind = "email" /\ req[r].pc = "confirm") => h # NoHtml
          /\ h # NoHtml =>
               /\ h.name = EscapedOnce(b.name)
               /\ h.service = EscapedOnce(b.service)
               /\ h.phone = (IF b.phone = UNDEF THEN <<>> ELSE EscapedOnce(b.phone))
               /\ h.message = ReplaceAll(EscapedOnce(b.message), "\n", Br)
               /\ Safe(h.name) /\ Safe(h.service) /\ Safe(h.phone)
               /\ (\A i \in 1..Len(b.message) : b.message[i] # "\n")
                    => Safe(h.message)
               /\ LET h1 == P1_ConfirmHtml(b)
                  IN  /\ h1.name = h.name /\ h1.service = h.service
                      /\ h1.phone = h.phone /\ h1.message = h.message
               /\ LET h2 == P2_ConfirmHtml(b)
                  IN  /\ h2.email = EscapedOnce(b.email) /\ Safe(h2.email)
                      /\ h2.name = h.name /\ h2.service = h.service
                      /\ h2.phone = h.phone /\ h2.message = h.message
          /\ (req[r].kind = "email" /\ req[r].mails # <<>>) =>
               LET ms == P2_AfterInsert([req[r] EXCEPT !.mails = <<>>]).mails
                   o2 == ms[1].html
               IN  /\ Len(ms) = 1
                   /\ o2.title = EscapedOnce(b.service) /\ Safe(o2.title)
                   /\ o2.name = EscapedOnce(b.name) /\ Safe(o2.name)
                   /\ o2.mailto = EscapedOnce(b.email) /\ Safe(o2.mailto)
                   /\ o2.email = EscapedOnce(b.email) /\ Safe(o2.email)
                   /\ o2.phone = EscapedOnce(OrDash(b.phone)) /\ Safe(o2.phone)
                   /\ o2.service = EscapedOnce(b.service) /\ Safe(o2.service)
                   /\ o2.pageUrl = EscapedOnce(OrDash(b.pageUrl))
                   /\ Safe(o2.pageUrl)
                   /\ o2.message = ReplaceAll(EscapedOnce(b.message), "\n", Br)
                   /\ (\A i \in 1..Len(b.message) : b.message[i] # "\n")
                        => Safe(o2.message)

\* a confirmation was sent whose message "<s>" is embedded as "&lt;s&gt;",
\* for a submission whose pageUrl /?">& the owner message of part_002
\* embeds as /?&quot;&gt;&amp;
C21_Witness ==
    \E r \in Reqs :
        /\ req[r].status = 200 /\ req[r].body.message = Script
        /\ req[r].html.message = LtEnt \o <<"s">> \o GtEnt
        /\ req[r].mails[2].result = "sent"
        /\ req[r].body.pageUrl = PageTag
        /\ P2_OwnerHtml(req[r].body).pageUrl
             = <<"/", "?">> \o QuotEnt \o GtEnt \o AmpEnt

\* the pattern local@domain.tld read on the value exactly as it is
MatchesExactly(s) ==
    LET ats   == {i \in 1..Len(s) : s[i] = "@"}
        at    == CHOOSE i \in ats : TRUE
        local == SubSeq(s, 1, at - 1)
        dom   == SubSeq(s, at + 1, Len(s))
    IN  /\ Cardinality(ats) = 1
        /\ \A i \in 1..Len(s) : ~IsSpace(s[i])
        /\ local # <<>>
        /\ \E d \in 1..Len(dom) : dom[d] = "." /\ d >= 2 /\ Len(dom) - d >= 2

\* C22: every stored lead has an email that matches the pattern exactly as
\* stored, without trimming, and a non-empty name, service and message.
C22_StoredEmailMatches ==
    \A l \in leads :
        /\ MatchesExactly(l.email)
        /\ l.name \notin {UNDEF, <<>>}
        /\ l.service \notin {UNDEF, <<>>}
        /\ l.message \notin {UNDEF, <<>>}

\* C23: with a configured secret, an admin request without a query token
\* reaches its handler only when its Authorization header is exactly
\* "Bearer " followed by the secret; with any other header it is answered
\* 401 by the guard.
C23_BearerSchemeExact ==
    AdminConfigured =>
      \A r \in Reqs :
        (IsAdmin(req[r]) /\ req[r].qtok = UNDEF /\ req[r].hdr # UNDEF) =>
          IF req[r].hdr = Bearer \o ConfiguredSecret
          THEN Reached(req[r])
          ELSE Refused(req[r], 401, "Unauthorized")

\* what the claim compares of a request: where it stands, its status code,
\* the id, the rows and the count it answers with, the time and the source
\* handed to the store with its submission, and the kind, recipient and
\* outcome of its mail sends in order
Seen(q) ==
    [pc |-> q.pc, status |-> q.status, id |-> q.id, rows |-> q.rows,
     deleted |-> q.deleted, createdAt |-> q.createdAt, source |-> q.source,
     sends |-> [k \in 1..Len(q.mails) |->
                  <<q.mails[k].kind, q.mails[k].to, q.mails[k].result>>]]

\* a version whose handlers start with Validate does on the submission
\* that server.js receives as request r in this step what server.js does
IntakeAgrees(r, Validate(_)) ==
    (ReceivedNow(r) /\ IsIntake(req'[r])) =>
        \A q \in {Validate([req[r] EXCEPT !.kind = req'[r].kind,
                                          !.body = req'[r].body])} :
            Seen(q) = Seen(req'[r])

\* when the INSERT of request r settles in this step, a version with the
\* handler InsertSettled and the INSERT Row, given the same outcome of the
\* store, goes on as server.js does and leaves the same rows in the store
InsertAgrees(r, InsertSettled(_, _, _), Row(_, _)) ==
    (req[r].pc = "insert" /\ req'[r].pc # "insert") =>
        LET ok == seq' # seq
        IN  /\ \A q \in {InsertSettled(req[r], ok, seq')} :
                   Seen(q) = Seen(req'[r])
            /\ leads' = IF ok THEN leads \cup {Row(req[r], seq')} ELSE leads

\* when the owner send of request r settles in this step, a version with
\* the handler OwnerSettled, given the same outcome of the transport, goes
\* on as server.js does
OwnerAgrees(r, OwnerSettled(_, _)) ==
    (req[r].pc = "owner" /\ req'[r].pc # "owner") =>
        \A q \in {OwnerSettled(req[r], req'[r].mails[1].result = "sent")} :
            Seen(q) = Seen(req'[r])

\* when the confirmation of request r settles in this step, a version with
\* the handler ConfirmSettled, given the same outcome of the transport,
\* answers as server.js does
ConfirmAgrees(r, ConfirmSettled(_, _)) ==
    (req[r].pc = "confirm" /\ req'[r].pc # "confirm") =>
        \A q \in {ConfirmSettled(req[r], req'[r].mails[2].result = "sent")} :
            Seen(q) = Seen(req'[r])

\* a version with the admin routes Adm, ListDn and DeleteDn and the DELETE
\* Gn does in this step of the admin request r what server.js does, given
\* the same outcome of the store, and leaves the same rows in the store
AdminAgrees(r, Adm(_), ListDn(_, _, _), DeleteDn(_, _, _), Gn(_)) ==
    /\ (ReceivedNow(r) /\ IsAdmin(req'[r])) =>
          \A q \in {Adm([req[r] EXCEPT !.kind = req'[r].kind,
                                       !.hdr = req'[r].hdr,
                                       !.qtok = req'[r].qtok,
                                       !.idp = req'[r].idp])} :
              Seen(q) = Seen(req'[r])
    /\ (req[r].pc = "list" /\ req'[r].pc # "list") =>
          \A q \in {ListDn(req[r], req'[r].status = 200, req'[r].rows)} :
              Seen(q) = Seen(req'[r])
    /\ (req[r].pc = "delete" /\ req'[r].pc # "delete") =>
          LET ok   == req'[r].status = 200
              gone == Gn(req[r].idp)
          IN  /\ \A q \in {DeleteDn(req[r], ok, Cardinality(gone))} :
                     Seen(q) = Seen(req'[r])
              /\ leads' = IF ok THEN leads \ gone ELSE leads

\* in this step of request r a version with these handlers, in the same
\* state and with the same input and the same outcome of the store and of
\* the transport, does what server.js does, up to the end of the owner send
VersionAgrees(r, Validate(_), InsertSettled(_, _, _), Row(_, _),
              OwnerSettled(_, _), Adm(_), ListDn(_, _, _),
              DeleteDn(_, _, _), Gn(_)) ==
    /\ IntakeAgrees(r, Validate)
    /\ InsertAgrees(r, InsertSettled, Row)
    /\ OwnerAgrees(r, OwnerSettled)
    /\ AdminAgrees(r, Adm, ListDn, DeleteDn, Gn)

\* part_001 does in this step of request r what server.js does
P1_Agrees(r) ==
    /\ VersionAgrees(r, P1_Validate, P1_InsertSettled, P1_insertLead,
                     P1_OwnerSettled, P1_Admin, P1_ListDone, P1_DeleteDone,
                     P1_Gone)
    /\ ConfirmAgrees(r, P1_ConfirmSettled)

\* part_002 does in this step of request r what server.js does
P2_Agrees(r) ==
    /\ VersionAgrees(r, P2_Validate, P2_InsertSettled, P2_insertLead,
                     P2_OwnerSettled, P2_Admin, P2_ListDone, P2_DeleteDone,
                     P2_Gone)
    /\ ConfirmAgrees(r, P2_ConfirmSettled)

\* part_000 does in this step of request r what server.js does, whatever
\* the message of a rejection; it has no step of its own where the
\* confirmation of server.js settles
P0_Agrees(r) ==
    \A msg \in ErrMessages :
        VersionAgrees(r, P0_Validate,
                      LAMBDA q, ok, id : P0_InsertSettled(q, ok, id, msg),
                      P0_insertLead,
                      LAMBDA q, ok : P0_OwnerSettled(q, ok, msg),
                      P0_Admin, P0_ListDone, P0_DeleteDone, P0_Gone)

\* C24 as stated: on the same requests, configuration and store and
\* transport outcomes, part_000, part_001 and part_002 answer with the same
\* status codes as server.js, leave the same rows in the store, and start
\* the same mail sends in the same order to the same recipients.
C24_VersionsAgree ==
    [][\A r \in Reqs :
         req'[r] # req[r] => P0_Agrees(r) /\ P1_Agrees(r) /\ P2_Agrees(r)]_vars

\* the steps of request r in which part_000 does what server.js does, and
\* the two in which it does not: it hands a submission with an invalid
\* email to the store (and answers 200 on POST /api/leads once the row is
\* written), and it answers 200 once the owner send has succeeded, without
\* a confirmation
FirstVersionAgreesBut(r) ==
    LET b  == req'[r].body
        q0 == P0_Validate([req[r] EXCEPT !.kind = req'[r].kind, !.body = b])
        q1(msg) == P0_OwnerSettled(req[r], req'[r].mails[1].result = "sent",
                                   msg)
    IN  /\ (ReceivedNow(r) /\ IsIntake(req'[r])) =>
              IF MissingFields(b) \/ isValidEmail(b.email)
              THEN Seen(q0) = Seen(req'[r])
              ELSE /\ req'[r].status = 400
                   /\ q0.pc = "insert"
                   /\ P0_insertLead(q0, NextId).email = b.email
                   /\ q0.kind = "leads" =>
                        P0_InsertSettled(q0, TRUE, NextId, "").status = 200
        /\ \A msg \in ErrMessages :
              /\ InsertAgrees(r, LAMBDA q, ok, id :
                                   P0_InsertSettled(q, ok, id, msg),
                              P0_insertLead)
              /\ (req[r].pc = "owner" /\ req'[r].pc # "owner") =>
                    IF req'[r].mails[1].result = "failed"
                    THEN Seen(q1(msg)) = Seen(req'[r])
                    ELSE /\ q1(msg).pc = "done" /\ q1(msg).status = 200
                         /\ Len(q1(msg).mails) = 1
                         /\ req'[r].pc = "confirm" /\ Len(req'[r].mails) = 2
        /\ AdminAgrees(r, P0_Admin, P0_ListDone, P0_DeleteDone, P0_Gone)

\* C24, amended: part_001 and part_002 do in every step of an intake or
\* admin request what server.js does (same status codes, same rows left in
\* the store, same mail sends in the same order to the same recipients);
\* part_000 does so except that it has no test of the email and sends no
\* confirmation.
C24_LaterVersionsAgree ==
    [][\A r \in Reqs :
         req'[r] # req[r] =>
           P1_Agrees(r) /\ P2_Agrees(r) /\ FirstVersionAgreesBut(r)]_vars

\* an invalid email was refused, the confirmation of a stored submission
\* failed and was answered 500, and an admin request deleted its row
C24_Witness ==
    /\ \E r \in Reqs : req[r].body.email = BadAt /\ req[r].status = 400
    /\ \E r \in Reqs : /\ req[r].status = 500 /\ Len(req[r].mails) = 2
                        /\ req[r].mails[2].result = "failed"
                        /\ \E d \in Reqs : /\ req[d].kind = "delete"
                                            /\ req[d].idp = req[r].id
                                            /\ req[d].status = 200
                                            /\ req[d].deleted = 1

====
